---- MODULE Spec2Model ----
(***************************************************************************)
(* State-machine model of the TechScanIQ continuous monitoring pipeline    *)
(* (techscaniq-v2/backend): the Kafka client, the rate limiter and the     *)
(* scheduler, the change detector, the alert engine and the real-time      *)
(* WebSocket gateway.                                                      *)
(*                                                                         *)
(* Each component is a long-lived asyncio process of its own; a component  *)
(* is checked under its own specification (SpecBus, SpecRate, SpecSched,   *)
(* SpecAlert, SpecGateway, SpecDetect; SpecCompare and SpecThresholds for  *)
(* detect_changes as a call), in which the variables of the other          *)
(* components stay at their initial values.  Time is a discrete clock      *)
(* `now`; its unit is one minute.                                          *)
(***************************************************************************)
EXTENDS Integers, Sequences, FiniteSets, TLC

VARIABLES
    now,          \* the wall clock (datetime.now(timezone.utc))
    producer,     \* KafkaClient.producer is set (start() has run)
    topics,       \* the broker: topic name -> sequence of appended messages
    lastProduce,  \* the last produce_message call: its arguments and its return value
    offsets,      \* per consumed topic: how many of its messages the consumer loop has taken
    lastConsume,  \* the last message the consumer loop took, and how its handler ended
    consumers,    \* per consumed topic: where the _consume_messages task of its consumer is
    handled,      \* per consumed topic: the messages handed to the handler, and how it ended
    throttleMarks,\* Redis: the live alert_throttle:{config}:{rule} keys with their expiry
    alertsDb,     \* the monitoring_alerts table, in insertion order
    notifLog,     \* the alert_notifications table, in insertion order
    lastChange,   \* the last change.detected message the alert engine handled
    lastResults,  \* _send_notifications: the alert and `results` of its last run
    rateMarks,    \* Redis: the live scan_rate:{domain} keys, their value and expiry
    lastRecord,   \* the last record_scan call
    lastAllowed,  \* the last is_allowed call and what it returned
    configsDb,    \* the monitoring_configs table: id -> row
    activeConfigs,\* MonitoringPipeline.active_configs: id -> MonitoringConfig
    jobs,         \* the scheduler's job store: the set of jobs (id, args, next run time)
    metrics,      \* MonitoringPipeline.metrics (the two scan counters)
    lastTrigger,  \* the last run of _trigger_scan and how it ended
    lastAdmin,    \* the last load or config mutation that completed, and its result
    wsState,      \* per websocket: where its _handle_connection coroutine is
    wsLink,       \* per websocket: whether the socket is still open
    connections,  \* ConnectionManager.connections: user id -> set of websockets
    subscriptions,\* ConnectionManager.subscriptions: config id -> set of websockets
    connMeta,     \* ConnectionManager.connection_metadata: websocket -> metadata
    received,     \* per websocket: the messages a send() to it has delivered
    broadcasts,   \* the change.detected events consumed, each with its broadcast
    presented,    \* per websocket: the first frame it sent, read as its authentication
    connOrder,    \* the entries of the `connections` dict: its keys in insertion order
    healthRuns,   \* the system.health events consumed, each with its loop over the users
    thresholdCache,\* Redis: the live perf_thresholds:{config} keys, value and expiry
    lastDetect,   \* the last run of detect_changes: its arguments and its result
    scanResults,  \* the scan_results table (written by the scan workers)
    changesDb,    \* the technology_, performance_ and security_changes tables
    emissions,    \* every change _process_detected_changes has handled, with its scan pair
    deliveries,   \* per scan.completed message: how often it was handed to the detector
    life,         \* one component: what its start() and stop() have set, opened and released
    runs          \* the scheduler's executor: the _trigger_scan runs in progress, and its last submission

busVars == <<producer, topics, lastProduce, offsets, lastConsume, consumers, handled>>

alertVars == <<throttleMarks, alertsDb, notifLog, lastChange, lastResults>>

rateVars == <<rateMarks, lastRecord, lastAllowed>>

schedVars == <<configsDb, activeConfigs, jobs, metrics, lastTrigger, lastAdmin>>

gatewayVars == <<wsState, wsLink, connections, subscriptions, connMeta, received, broadcasts,
                 presented, connOrder, healthRuns>>

detectVars == <<thresholdCache, lastDetect, scanResults, changesDb, emissions,
                deliveries>>

vars == <<now, busVars, alertVars, rateVars, schedVars, gatewayVars, life, runs, detectVars>>

\* What the steps of one component leave alone.
notBus == <<alertVars, rateVars, schedVars, gatewayVars, life, runs, detectVars>>

notAlert == <<lastProduce, offsets, lastConsume, consumers, handled, rateVars, schedVars, gatewayVars, life, runs,
              detectVars>>

notRate == <<busVars, alertVars, schedVars, gatewayVars, life, runs, detectVars>>

notSched == <<producer, lastProduce, offsets, lastConsume, consumers, handled, alertVars,
              lastRecord, lastAllowed, gatewayVars, detectVars, life, runs>>

notGateway == <<now, busVars, alertVars, rateVars, schedVars, detectVars, life, runs>>

notDetect == <<producer, lastProduce, offsets, lastConsume, consumers, handled, alertVars, rateVars, schedVars,
               gatewayVars, life, runs>>

\* ------------------------------------------------------------------------
\* Bounds of the model
\* ------------------------------------------------------------------------
MaxQueue == 2

MaxTime == 3

MaxAlerts == 2

MaxAttempts == 2

MaxLog == 3

MaxRateTime == 6

MaxHours == 3

\* The hours the clock runs while the administrator's calls are explored.
MaxAdminHours == 1

MaxEvents == 1

\* ------------------------------------------------------------------------
\* Small helpers
\* ------------------------------------------------------------------------
Range(s) == {s[i] : i \in DOMAIN s}

Last(s) == s[Len(s)]

\* ------------------------------------------------------------------------
\* streaming/kafka_client.py : KafkaClient
\* ------------------------------------------------------------------------
DlqTopic == "dlq.failed-messages"

TopicNames ==
    {"scan.scheduled", "scan.completed", "change.detected",
     "alert.triggered", "system.health", DlqTopic}

\* What one produce_message call meets: the broker accepts the record or
\* send_and_wait raises KafkaError after the producer's retries; the Redis
\* metric writes that follow a successful send succeed or raise.
SendOutcomes == {"ok", "kafka_error"}

RedisOutcomes == {"ok", "error"}

Faults == [send : SendOutcomes, redis : RedisOutcomes]

NoFault == [send |-> "ok", redis |-> "ok"]

\* A produce_message call and the call _send_to_dlq may nest in it.
FaultSeqs == {<<f1, f2>> : f1 \in Faults, f2 \in Faults}

NoFaults == <<NoFault, NoFault>>

\* _send_to_dlq builds the dead-letter message.
DlqMessage(message_data, original_topic, error) ==
    [type |-> "dlq_message",
     source |-> "kafka_client",
     data |-> [original_message |-> message_data,
               original_topic |-> original_topic,
               error |-> error]]

\* The key of a record as the broker holds it.  key_serializer gives None
\* for a key that is None or empty.
NoKey == [set |-> FALSE]

StringKey(k) == IF k = "" THEN NoKey ELSE [set |-> TRUE, value |-> k]

\* The record send_and_wait appends: the message and its key.
Keyed(message, key) ==
    [f \in DOMAIN message \cup {"key"} |-> IF f = "key" THEN key ELSE message[f]]

\* msg.value of a record
Value(record) == [f \in DOMAIN record \ {"key"} |-> record[f]]

\* What a call meets: the head of the faults, and nothing untoward once they
\* are used up.
Fault(faults) == IF faults = <<>> THEN NoFault ELSE Head(faults)

Rest(faults) == IF faults = <<>> THEN <<>> ELSE Tail(faults)

\* A failure is dead-lettered whatever its topic.
AnyTopic(topic) == TRUE

\* `if topic != 'dlq.failed-messages'`: what failed is not itself a message
\* of the dead-letter topic.
NotDeadLetter(topic) == topic # DlqTopic

RECURSIVE ProduceMessage(_, _, _, _, _)

\* _send_to_dlq: produce the dead-letter message; every exception is logged.
\* The result is that of the produce_message call, with dlq_calls the number
\* of produce_message calls on the dead-letter topic this one has led to,
\* itself included.
SendToDlq(kc, message_data, original_topic, error, faults) ==
    LET r == ProduceMessage(kc, DlqTopic, DlqMessage(message_data, original_topic, error),
                            NoKey, faults)
    IN  [kc |-> r.kc, dlq_calls |-> r.dlq_calls + 1]

\* produce_message(topic, message, key) on the client state
\* kc = [producer, topics] returns [kc, ret].  faults[1] is what this call meets, Tail(faults) what
\* the nested dead-letter call meets.
ProduceMessage(kc, topic, message, key, faults) ==
    IF ~kc.producer
    THEN [kc |-> kc, ret |-> FALSE, dlq_calls |-> 0]
    ELSE IF Fault(faults).send = "ok"
    THEN LET sent == [kc EXCEPT !.topics[topic] = Append(@, Keyed(message, key))]
         IN  IF Fault(faults).redis = "ok"
             THEN [kc |-> sent, ret |-> TRUE, dlq_calls |-> 0]
             \* redis.incr raises: caught by `except Exception`, no dead-letter
             ELSE [kc |-> sent, ret |-> FALSE, dlq_calls |-> 0]
    ELSE \* KafkaError
         IF NotDeadLetter(topic)
         THEN LET dlq == SendToDlq(kc, message, topic, "KafkaError", Rest(faults))
              IN  [kc |-> dlq.kc, ret |-> FALSE, dlq_calls |-> dlq.dlq_calls]
         ELSE [kc |-> kc, ret |-> FALSE, dlq_calls |-> 0]

Client == [producer |-> producer, topics |-> topics]

\* Room left on every topic a call may append to (the model's cap).
Room(topic) == Len(topics[topic]) < MaxQueue /\ Len(topics[DlqTopic]) < MaxQueue


\* ------------------------------------------------------------------------
\* Strings whose characters the code looks at are sequences of characters.
\* ------------------------------------------------------------------------
LowerChar(c) ==
    LET upper == <<"A", "B", "C", "D", "E", "F", "G", "H", "I", "J", "K", "L", "M",
                   "N", "O", "P", "Q", "R", "S", "T", "U", "V", "W", "X", "Y", "Z">>
        lower == <<"a", "b", "c", "d", "e", "f", "g", "h", "i", "j", "k", "l", "m",
                   "n", "o", "p", "q", "r", "s", "t", "u", "v", "w", "x", "y", "z">>
    IN  IF \E i \in DOMAIN upper : upper[i] = c
        THEN lower[CHOOSE i \in DOMAIN upper : upper[i] = c]
        ELSE c

\* str.lower()
Lower(str) == [i \in DOMAIN str |-> LowerChar(str[i])]

\* `a in b` on two strings
IsSubstring(a, b) ==
    \E i \in 0..(Len(b) - Len(a)) : SubSeq(b, i + 1, i + Len(a)) = a

React == <<"R", "e", "a", "c", "t">>

Jquery == <<"j", "q", "u", "e", "r", "y">>

\* dict.get(key, default)
Get(d, key, default) == IF key \in DOMAIN d THEN d[key] ELSE default

\* list.index(x) for the ordinal lists of the rule dialects; -1 stands for
\* the ValueError of a value that is not in the list.
IndexOf(list, x) ==
    IF \E i \in DOMAIN list : list[i] = x
    THEN (CHOOSE i \in DOMAIN list : list[i] = x) - 1
    ELSE -1

\* ------------------------------------------------------------------------
\* alerting/alert_engine.py : AlertEngine, rule evaluation
\* ------------------------------------------------------------------------
ImpactLevels == <<"low", "medium", "high", "critical">>

\* The dialect matchers return "true", "false" or "raise".
Verdict(b) == IF b THEN "true" ELSE "false"

\* _match_simple_condition
MatchSimpleCondition(conditions, change_details) ==
    Verdict(\A m \in Get(conditions, "matches", {}) :
                IF m.is_list
                THEN Get(change_details, m.field, "None") \in m.expected
                ELSE {Get(change_details, m.field, "None")} = m.expected)

\* _match_technology_condition
MatchTechnologyCondition(conditions, change_details) ==
    IF Get(change_details, "type", "None") # "technology_change" THEN "false"
    ELSE IF /\ "technologies" \in DOMAIN conditions
            /\ ~\E tech \in conditions["technologies"] :
                  IsSubstring(Lower(tech),
                              Lower(Get(change_details, "technology_name", <<>>)))
    THEN "false"
    ELSE IF /\ "change_types" \in DOMAIN conditions
            /\ Get(change_details, "change_type", "None") \notin conditions["change_types"]
    THEN "false"
    ELSE IF "min_impact" \in DOMAIN conditions
    THEN LET min_impact_idx == IndexOf(ImpactLevels, conditions["min_impact"])
             actual_impact_idx ==
                 IndexOf(ImpactLevels, Get(change_details, "impact_assessment", "low"))
         IN  IF min_impact_idx < 0 \/ actual_impact_idx < 0 THEN "raise"
             ELSE Verdict(~(actual_impact_idx < min_impact_idx))
    ELSE "true"

Abs(x) == IF x < 0 THEN -x ELSE x

\* _match_performance_condition
MatchPerformanceCondition(conditions, change_details) ==
    IF Get(change_details, "type", "None") # "performance_change" THEN "false"
    ELSE IF /\ "metrics" \in DOMAIN conditions
            /\ Get(change_details, "metric_name", "None") \notin conditions["metrics"]
    THEN "false"
    ELSE IF /\ "min_change_percent" \in DOMAIN conditions
            /\ Abs(Get(change_details, "change_percent", 0)) < conditions["min_change_percent"]
    THEN "false"
    ELSE IF /\ Get(conditions, "degradation_only", FALSE)
            /\ ~Get(change_details, "is_degradation", FALSE)
    THEN "false"
    ELSE "true"

\* _match_security_condition
MatchSecurityCondition(conditions, change_details) ==
    IF Get(change_details, "type", "None") # "security_change" THEN "false"
    ELSE LET min_severity_idx == IndexOf(ImpactLevels, Get(conditions, "min_severity", "low"))
             actual_severity_idx ==
                 IndexOf(ImpactLevels, Get(change_details, "severity", "low"))
         IN  IF /\ "min_severity" \in DOMAIN conditions
                /\ (min_severity_idx < 0 \/ actual_severity_idx < 0)
             THEN "raise"
             ELSE IF /\ "min_severity" \in DOMAIN conditions
                     /\ actual_severity_idx < min_severity_idx
             THEN "false"
             ELSE IF /\ "vulnerability_types" \in DOMAIN conditions
                     /\ Get(change_details, "vulnerability_type", "None")
                          \notin conditions["vulnerability_types"]
             THEN "false"
             ELSE "true"

\* _evaluate_expression, for expressions of the shape "$field > number": the
\* field reference is replaced by the change's value and the text is given
\* to eval; with the field missing the "$" stays and eval raises, which the
\* method turns into False.
EvaluateExpression(expression, change_details) ==
    IF expression.field \notin DOMAIN change_details THEN "raise"
    ELSE Verdict(change_details[expression.field] > expression.value)

\* The dialect is chosen by conditions['type'].
MatchDialect(conditions, change_details) ==
    CASE Get(conditions, "type", "None") = "simple" ->
            MatchSimpleCondition(conditions, change_details)
      [] Get(conditions, "type", "None") = "expression" ->
            EvaluateExpression(conditions["expression"], change_details)
      [] Get(conditions, "type", "None") = "technology" ->
            MatchTechnologyCondition(conditions, change_details)
      [] Get(conditions, "type", "None") = "performance" ->
            MatchPerformanceCondition(conditions, change_details)
      [] Get(conditions, "type", "None") = "security" ->
            MatchSecurityCondition(conditions, change_details)
      [] OTHER -> "false"

\* An evaluation whose exception is left to the caller.
Uncaught(verdict) == verdict

\* The `except Exception` of _evaluate_rule: the error is logged and the
\* rule counts as not matching.
CaughtAsNoMatch(verdict) == IF verdict = "raise" THEN "false" ELSE verdict

\* _evaluate_rule, with what leaves it: "true", "false" or "raise".
EvaluateVerdict(rule, change_details) ==
    IF ~rule.enabled THEN "false"
    ELSE CaughtAsNoMatch(MatchDialect(rule.conditions, change_details))

\* _evaluate_rule: a disabled rule never matches, an exception is logged and
\* counts as no match.
EvaluateRule(rule, change_details) ==
    EvaluateVerdict(rule, change_details) = "true"

\* ------------------------------------------------------------------------
\* alerting/alert_engine.py : the monitoring_configs.alert_rules the engine
\* reads.  A rule is the JSON object an administrator stored; its optional
\* keys may be missing.
\* ------------------------------------------------------------------------
EmailChan == [type |-> "email", name |-> "ops-mail"]

SlackChan == [type |-> "slack", name |-> "ops-chat"]

WebhookChan == [type |-> "webhook", name |-> "hook"]

SmsChan == [type |-> "sms", name |-> "oncall"]

PagerChan == [type |-> "pagerduty", name |-> "pager"]

AlertConfigs == {"c1", "c2"}

\* A config with rules whose conditions cannot be evaluated: the impact and
\* severity levels they name are not in the engine's lists.
RuleConfigs == {"c3"}

BrokenRules ==
    << [id |-> "r1", name |-> "broken-impact",
        conditions |-> [type |-> "technology", min_impact |-> "urgent"],
        severity |-> "high",
        notification_channels |-> <<EmailChan>>,
        throttle_minutes |-> 1],
       [id |-> "r2", name |-> "tech-added",
        conditions |-> [type |-> "technology", change_types |-> {"added"}],
        severity |-> "medium",
        notification_channels |-> <<EmailChan>>,
        throttle_minutes |-> 1],
       [id |-> "r3", name |-> "broken-severity",
        conditions |-> [type |-> "security", min_severity |-> "urgent"],
        severity |-> "high",
        notification_channels |-> <<SlackChan>>,
        throttle_minutes |-> 1],
       [id |-> "r4", name |-> "sec-any",
        conditions |-> [type |-> "simple",
                        matches |-> {[field |-> "type",
                                      expected |-> {"security_change"},
                                      is_list |-> FALSE]}],
        severity |-> "critical",
        notification_channels |-> <<SlackChan>>,
        throttle_minutes |-> 2] >>

AlertRulesTable ==
    [c \in AlertConfigs \cup RuleConfigs |->
        IF c \in RuleConfigs THEN BrokenRules
        ELSE IF c = "c1"
        THEN << [id |-> "r1", name |-> "tech-watch",
                 conditions |-> [type |-> "technology",
                                 technologies |-> {Lower(React)},
                                 change_types |-> {"added", "version_changed"},
                                 min_impact |-> "medium"],
                 severity |-> "high",
                 notification_channels |-> <<EmailChan, PagerChan>>,
                 throttle_minutes |-> 2],
                [name |-> "perf-watch",
                 conditions |-> [type |-> "performance",
                                 min_change_percent |-> 10,
                                 degradation_only |-> TRUE],
                 severity |-> "medium",
                 notification_channels |-> <<SlackChan, WebhookChan>>,
                 throttle_minutes |-> 2] >>
        ELSE << [id |-> "r1", name |-> "sec-watch",
                 conditions |-> [type |-> "simple",
                                 matches |-> {[field |-> "type",
                                               expected |-> {"security_change"},
                                               is_list |-> FALSE]}],
                 severity |-> "critical",
                 notification_channels |-> <<SmsChan>>],
                [id |-> "r2", name |-> "muted",
                 conditions |-> [type |-> "simple"],
                 severity |-> "low",
                 notification_channels |-> <<>>,
                 enabled |-> FALSE,
                 throttle_minutes |-> 1] >>]

\* The change_details payloads of the change.detected messages that arrive.
ChangeDetails ==
    { [type |-> "technology_change", change_type |-> "added",
       technology_name |-> React, impact_assessment |-> "high"],
      [type |-> "performance_change", metric_name |-> "load_time",
       change_percent |-> 20, is_degradation |-> TRUE, severity |-> "warning"],
      [type |-> "security_change", change_type |-> "vulnerability_added",
       vulnerability_type |-> "xss", severity |-> "high"] }

\* The data of a change.detected message (create_change_detected_message).
ChangeMessages ==
    {[config_id |-> c, change_type |-> d.type, change_details |-> d] :
        c \in AlertConfigs, d \in ChangeDetails}

\* uuid.uuid4(): a value that is in use nowhere.
FreshUuid(used) ==
    LET free == {n \in 1..(Cardinality(used) + 1) : n \notin used}
    IN  CHOOSE n \in free : \A m \in free : n <= m

NamedId(str) == [uuid |-> 0, name |-> str]

UuidId(n) == [uuid |-> n, name |-> ""]

UsedUuids(marks, alerts) ==
    {m.rule_id.uuid : m \in marks} \cup {alerts[i].id : i \in DOMAIN alerts}

DefaultThrottleMinutes == 60

RECURSIVE BuildRules(_, _, _)

\* The loop of _get_alert_rules: an AlertRule per stored rule, a missing key
\* taking its default; a missing id takes str(uuid.uuid4()).
BuildRules(rows, used, acc) ==
    IF rows = <<>> THEN acc
    ELSE LET rule_data == Head(rows)
             fresh == FreshUuid(used)
             rule == [id |-> IF "id" \in DOMAIN rule_data
                             THEN NamedId(rule_data["id"])
                             ELSE UuidId(fresh),
                      name |-> Get(rule_data, "name", ""),
                      conditions |-> Get(rule_data, "conditions", <<>>),
                      severity |-> Get(rule_data, "severity", "medium"),
                      notification_channels |-> Get(rule_data, "notification_channels", <<>>),
                      enabled |-> Get(rule_data, "enabled", TRUE),
                      throttle_minutes |->
                          Get(rule_data, "throttle_minutes", DefaultThrottleMinutes)]
         IN  BuildRules(Tail(rows),
                        IF "id" \in DOMAIN rule_data THEN used ELSE used \cup {fresh},
                        Append(acc, rule))

\* _get_alert_rules: the rules of the config's row; no row, or a store error,
\* gives no rules.
GetAlertRules(config_id, used, db) ==
    IF db = "ok" /\ config_id \in DOMAIN AlertRulesTable
    THEN BuildRules(AlertRulesTable[config_id], used, <<>>)
    ELSE <<>>

\* _is_throttled: redis.exists on the throttle key; a Redis error reads as
\* not throttled.
IsThrottled(marks, config_id, rule_id, t, redis) ==
    /\ redis = "ok"
    /\ \E m \in marks : m.config_id = config_id /\ m.rule_id = rule_id /\ t < m.expires_at

\* _set_throttle: redis.setex(key, throttle_minutes * 60, '1'); Redis refuses
\* an expiry that is not positive, and every error is logged only.
SetThrottle(marks, config_id, rule_id, throttle_minutes, t, redis) ==
    IF redis = "ok" /\ throttle_minutes > 0
    THEN {m \in marks : ~(m.config_id = config_id /\ m.rule_id = rule_id)}
            \cup {[config_id |-> config_id, rule_id |-> rule_id,
                   expires_at |-> t + throttle_minutes]}
    ELSE marks

\* The Alert built by _create_alert, as the row _store_alert inserts.
AlertRow(alert_id, config_id, rule, change_details, t) ==
    [id |-> alert_id,
     config_id |-> config_id,
     rule_name |-> rule.name,
     alert_type |-> Get(change_details, "type", "unknown"),
     severity |-> rule.severity,
     triggered_at |-> t,
     notification_channels |-> rule.notification_channels,
     notification_sent |-> FALSE,
     notification_attempts |-> 0]

\* What the calls made for one rule meet.
RuleEnvs ==
    [exists : RedisOutcomes, store : {"ok", "error"}, setex : RedisOutcomes,
     faults : FaultSeqs]

ReliableRuleEnv == [exists |-> "ok", store |-> "ok", setex |-> "ok", faults |-> NoFaults]

\* A store call that logs its error and does not raise.
StoreAlertQuietly(alerts, alert, store) ==
    [alerts |-> IF store = "ok" THEN Append(alerts, alert) ELSE alerts, raised |-> FALSE]

\* _store_alert: the row is inserted; a store error is logged and raised
\* again.
StoreAlert(alerts, alert, store) ==
    IF store = "ok" THEN [alerts |-> Append(alerts, alert), raised |-> FALSE]
    ELSE [alerts |-> alerts, raised |-> TRUE]

\* _create_alert on the engine state st = [marks, alerts, kc, created]:
\* nothing when throttled; else the alert is stored (_store_alert raises on a
\* store error and _create_alert then returns None), the throttle is set and
\* the alert returned.  The result is [st, alert], alert = <<>> for None.
CreateAlert(st, config_id, rule, change_details, t, e) ==
    IF IsThrottled(st.marks, config_id, rule.id, t, e.exists)
    THEN [st |-> st, alert |-> <<>>]
    ELSE LET alert_id == FreshUuid(UsedUuids(st.marks, st.alerts) \cup {rule.id.uuid})
             alert == AlertRow(alert_id, config_id, rule, change_details, t)
             stored == StoreAlert(st.alerts, alert, e.store)
         IN  IF stored.raised
             THEN [st |-> st, alert |-> <<>>]
             ELSE [st |-> [st EXCEPT
                             !.alerts = stored.alerts,
                             !.marks = SetThrottle(@, config_id, rule.id,
                                                   rule.throttle_minutes, t, e.setex),
                             !.created = Append(@, alert_id)],
                   alert |-> <<alert>>]

\* The data of create_alert_triggered_message.
AlertTriggeredMessage(alert) ==
    [type |-> "alert_triggered", source |-> "alert_engine",
     data |-> [alert_id |-> alert.id, config_id |-> alert.config_id,
               alert_type |-> alert.alert_type, severity |-> alert.severity]]

\* key=alert.config_id
AlertKey(alert) == StringKey(alert.config_id)

\* _trigger_alert: publish alert.triggered keyed by the config id; the
\* return value of produce_message is not looked at.
TriggerAlert(st, alert, faults) ==
    [st EXCEPT !.kc = ProduceMessage(@, "alert.triggered", AlertTriggeredMessage(alert),
                                     AlertKey(alert), faults).kc]

RECURSIVE EvaluateRules(_, _, _, _, _, _)

\* The loop of _handle_change_detected over the rules, in order.
EvaluateRules(st, config_id, rules, change_details, t, envs) ==
    IF rules = <<>> THEN st
    ELSE LET rule == Head(rules)
             e == Head(envs)
             made == CreateAlert(st, config_id, rule, change_details, t, e)
             next == IF ~EvaluateRule(rule, change_details) THEN st
                     ELSE IF made.alert = <<>> THEN made.st
                     ELSE TriggerAlert(made.st, made.alert[1], e.faults)
         IN  \* an exception that leaves _evaluate_rule ends the loop in the
             \* handler's own `except Exception`
             IF EvaluateVerdict(rule, change_details) = "raise" THEN st
             ELSE EvaluateRules(next, config_id, Tail(rules), change_details, t,
                                Tail(envs))

\* --- the client on its own: callers publish, a generic consumer consumes ---

\* Topics and messages the stand-alone client is driven with.
BusTopics == {"scan.scheduled", DlqTopic}

BusMessages ==
    {[type |-> "scan_scheduled", source |-> "scheduler", data |-> [config_id |-> c]] :
        c \in {"c1", "c2"}}

NoCall == [topic |-> "", ret |-> TRUE, dead_lettered |-> FALSE, dlq_calls |-> 0]

InitBus ==
    /\ producer = FALSE
    /\ topics = [t \in TopicNames |-> <<>>]
    /\ lastProduce = NoCall
    /\ offsets = [t \in BusTopics |-> 0]
    /\ lastConsume = [topic |-> "", raised |-> FALSE, dead_lettered |-> FALSE, dlq_calls |-> 0]
    /\ consumers = [t \in BusTopics |-> "none"]
    /\ handled = [t \in BusTopics |-> <<>>]

\* KafkaClient.start: the producer is created and started.
KafkaStart ==
    /\ ~producer
    /\ producer' = TRUE
    /\ UNCHANGED <<now, topics, lastProduce, offsets, lastConsume, consumers, handled, notBus>>

\* A caller publishes `message` to `topic`.
Produce(topic, message, faults) ==
    /\ Room(topic)
    /\ LET r == ProduceMessage(Client, topic, message, NoKey, faults)
       IN  /\ topics' = r.kc.topics
           /\ lastProduce' =
                 [topic |-> topic, message |-> message, ret |-> r.ret,
                  dead_lettered |-> Len(r.kc.topics[DlqTopic]) > Len(topics[DlqTopic]),
                  dlq_calls |-> r.dlq_calls]
    /\ UNCHANGED <<now, producer, offsets, lastConsume, consumers, handled, notBus>>

\* create_consumer: the consumer of a topic is started and its
\* _consume_messages task created.
CreateConsumer(topic) ==
    /\ producer
    /\ consumers[topic] = "none"
    /\ consumers' = [consumers EXCEPT ![topic] = "running"]
    /\ UNCHANGED <<now, producer, topics, lastProduce, offsets, lastConsume, handled, notBus>>

\* `async for msg in consumer` itself raises (the broker is lost, a record
\* cannot be deserialized): the outer `except Exception` ends the task.
FetchError(topic) ==
    /\ consumers[topic] = "running"
    /\ consumers' = [consumers EXCEPT ![topic] = "stopped"]
    /\ UNCHANGED <<now, producer, topics, lastProduce, offsets, lastConsume, handled, notBus>>

\* A consumer task that a raising handler brings to its end.
EndsTask(status) == "stopped"

\* The inner `except Exception` of _consume_messages: the error is counted
\* and logged and the task stays in its loop.
AfterHandlerError(status) == status

\* _consume_messages: one turn of `async for msg in consumer`.  The handler
\* returns or raises; a raise on a message of another topic than the
\* dead-letter topic goes to _send_to_dlq, and the loop goes on.
Consume(topic, raises, faults) ==
    /\ producer
    /\ consumers[topic] = "running"
    /\ offsets[topic] < Len(topics[topic])
    /\ Len(topics[DlqTopic]) < MaxQueue
    /\ LET msg == Value(topics[topic][offsets[topic] + 1])
           dlq == IF raises /\ NotDeadLetter(topic)
                  THEN SendToDlq(Client, msg, topic, "HandlerError", faults)
                  ELSE [kc |-> Client, dlq_calls |-> 0]
           kc == dlq.kc
       IN  /\ topics' = kc.topics
           /\ lastConsume' =
                 [topic |-> topic, message |-> msg, raised |-> raises,
                  dead_lettered |-> Len(kc.topics[DlqTopic]) > Len(topics[DlqTopic]),
                  dlq_calls |-> dlq.dlq_calls]
    /\ offsets' = [offsets EXCEPT ![topic] = @ + 1]
    /\ handled' = [handled EXCEPT ![topic] =
                      Append(@, [offset |-> offsets[topic] + 1, raised |-> raises])]
    /\ consumers' = [consumers EXCEPT ![topic] =
                        IF raises THEN AfterHandlerError(@) ELSE @]
    /\ UNCHANGED <<now, producer, lastProduce, notBus>>

NextBus ==
    \/ KafkaStart
    \/ \E t \in BusTopics, m \in BusMessages, fs \in FaultSeqs : Produce(t, m, fs)
    \/ \E t \in BusTopics, raises \in BOOLEAN, fs \in FaultSeqs : Consume(t, raises, fs)
    \/ \E t \in BusTopics : CreateConsumer(t)
    \/ \E t \in BusTopics : FetchError(t)


\* ------------------------------------------------------------------------
\* alerting/alert_engine.py : the two handlers of the alert engine
\* ------------------------------------------------------------------------
Engine == [marks |-> throttleMarks, alerts |-> alertsDb, kc |-> Client, created |-> <<>>]

\* _handle_change_detected on the data of one change.detected message.
\* `db` is what the rule query meets, envs[i] what the calls for rule i meet.
HandleChangeDetected(data, db, envs) ==
    /\ Len(alertsDb) < MaxAlerts
    /\ Len(topics["alert.triggered"]) < MaxQueue
    /\ Len(topics[DlqTopic]) < MaxQueue
    /\ LET config_id == data.config_id
           change_details == data.change_details
           alert_rules == GetAlertRules(config_id, UsedUuids(throttleMarks, alertsDb), db)
           st == EvaluateRules(Engine, config_id, alert_rules, change_details, now, envs)
       IN  /\ throttleMarks' = st.marks
           /\ alertsDb' = st.alerts
           /\ topics' = st.kc.topics
           /\ lastChange' =
                 [config_id |-> config_id, at |-> now,
                  matched |-> {alert_rules[i].name : i \in
                                  {j \in DOMAIN alert_rules :
                                      EvaluateRule(alert_rules[j], change_details)}},
                  raised |-> {alert_rules[i].name : i \in
                                  {j \in DOMAIN alert_rules :
                                      /\ alert_rules[j].enabled
                                      /\ MatchDialect(alert_rules[j].conditions,
                                                      change_details) = "raise"}},
                  before |-> Len(alertsDb)]
    /\ UNCHANGED <<now, producer, notifLog, lastResults, notAlert>>

\* channel_handlers: the channel types the engine has a handler class for.
ChannelHandlers == {"email", "slack", "webhook", "sms"}

ChannelOutcomes == {"sent", "failed"}

MaxChannels == 2

\* What one run of _send_notifications meets: the status each channel's
\* send_notification returns, and whether the store takes each write.
SendEnvs ==
    [status : [1..MaxChannels -> ChannelOutcomes],
     log : [1..MaxChannels -> {"ok", "error"}],
     update : {"ok", "error"},
     get : {"ok", "error"}]

ReliableSendEnvs == {e \in SendEnvs : e.get = "ok" /\ e.update = "ok"
                                      /\ \A k \in 1..MaxChannels : e.log[k] = "ok"}

\* any(r['status'] == 'sent' for r in results)
AnySent(results) == \E k \in DOMAIN results : results[k].status = "sent"

AllSent(results) == \A k \in DOMAIN results : results[k].status = "sent"

RECURSIVE SendLoop(_, _, _, _, _)

\* The loop of _send_notifications over notification_channels from position
\* k: a channel of a type without a handler is passed over; every other
\* channel is sent to, its result appended to `results` and written by
\* _log_notification_attempt (a store error there is logged only).
SendLoop(alert_id, channels, e, k, acc) ==
    IF k > Len(channels) THEN acc
    ELSE LET channel_config == channels[k]
             channel_type == Get(channel_config, "type", "")
             result == [channel_type |-> channel_type,
                        channel_config |-> Get(channel_config, "name", "unnamed"),
                        status |-> e.status[k]]
             row == [alert_id |-> alert_id, channel_type |-> channel_type,
                     channel_config |-> channel_config, status |-> e.status[k]]
         IN  IF channel_type \notin ChannelHandlers
             THEN SendLoop(alert_id, channels, e, k + 1, acc)
             ELSE SendLoop(alert_id, channels, e, k + 1,
                           [results |-> Append(acc.results, result),
                            log |-> IF e.log[k] = "ok"
                                    THEN Append(acc.log, row) ELSE acc.log])

\* _update_alert_notification_status: one UPDATE of the alert's row.
UpdateAlertNotificationStatus(alerts, alert_id, results) ==
    [i \in DOMAIN alerts |->
        IF alerts[i].id = alert_id
        THEN [alerts[i] EXCEPT !.notification_sent = AnySent(results),
                               !.notification_attempts = @ + 1]
        ELSE alerts[i]]

\* _get_alert_by_id: the row and its notification_channels, or nothing.
GetAlertById(alerts, alert_id, db) ==
    IF db = "ok" THEN SelectSeq(alerts, LAMBDA a : a.id = alert_id) ELSE <<>>

\* _handle_alert_triggered on the data of one alert.triggered message, and
\* the _send_notifications it calls.
HandleAlertTriggered(data, e) ==
    /\ Len(notifLog) < MaxLog
    /\ \A i \in DOMAIN alertsDb :
          alertsDb[i].id = data.alert_id => alertsDb[i].notification_attempts < MaxAttempts
    /\ LET found == GetAlertById(alertsDb, data.alert_id, e.get)
       IN  IF found = <<>>
           THEN UNCHANGED <<alertsDb, notifLog, lastResults>>
           ELSE LET alert == found[1]
                    done == SendLoop(alert.id, alert.notification_channels, e, 1,
                                     [results |-> <<>>, log |-> notifLog])
                IN  /\ notifLog' = done.log
                    /\ alertsDb' = IF e.update = "ok"
                                   THEN UpdateAlertNotificationStatus(alertsDb, alert.id,
                                                                      done.results)
                                   ELSE alertsDb
                    /\ lastResults' =
                          [ran |-> TRUE, alert_id |-> alert.id,
                           channels |-> alert.notification_channels,
                           outcomes |-> [k \in DOMAIN alert.notification_channels |->
                                            e.status[k]],
                           results |-> done.results, before |-> Len(notifLog)]
    /\ UNCHANGED <<now, producer, topics, throttleMarks, lastChange, notAlert>>

\* `step` minutes pass; Redis drops the keys whose time to live has run out.
Tick(step, limit) ==
    /\ now + step <= limit
    /\ now' = now + step
    /\ throttleMarks' = {m \in throttleMarks : now + step < m.expires_at}
    /\ rateMarks' = {m \in rateMarks : now + step < m.expires_at}
    /\ thresholdCache' = [c \in {k \in DOMAIN thresholdCache :
                                     now + step < thresholdCache[k].expires_at} |->
                             thresholdCache[c]]
    /\ UNCHANGED <<busVars, alertsDb, notifLog, lastChange, lastResults,
                   lastRecord, lastAllowed, schedVars, gatewayVars, life, runs,
                   lastDetect, scanResults, changesDb, emissions, deliveries>>

\* The alert engine with its store, Redis and broker answering every call.
NextAlert ==
    \/ \E m \in ChangeMessages :
          HandleChangeDetected(m, "ok", <<ReliableRuleEnv, ReliableRuleEnv>>)
    \/ \E i \in DOMAIN topics["alert.triggered"], e \in ReliableSendEnvs :
          HandleAlertTriggered(topics["alert.triggered"][i].data, e)
    \/ Tick(1, MaxTime)


\* ------------------------------------------------------------------------
\* pipeline/monitoring_pipeline.py : RateLimiter
\* ------------------------------------------------------------------------
\* An absolute URL as urlparse splits it: netloc is the host with ":port"
\* appended when the URL names a port.
Url(host, port, path) == [scheme |-> "https", host |-> host, port |-> port, path |-> path]

Netloc(url) == IF url.port = <<>> THEN url.host ELSE url.host \o <<":">> \o url.port

\* _extract_domain: urlparse(url).netloc.lower()
ExtractDomain(url) == Lower(Netloc(url))

\* urlparse(url).hostname: the host, lower-cased, without the port.
Hostname(url) == Lower(url.host)

MinIntervalMinutes == 5

TtlMinutes == 5

\* is_allowed(url): false when the key of the URL's domain holds a time less
\* than min_interval_minutes ago.
IsAllowed(marks, url, t) ==
    ~ \E m \in marks : /\ m.key = ExtractDomain(url)
                       /\ t < m.expires_at
                       /\ t - m.value < MinIntervalMinutes

\* record_scan(url): setex of the domain's key to the current time, for
\* ttl_minutes.
RecordScan(marks, url, t) ==
    {m \in marks : m.key # ExtractDomain(url)}
        \cup {[key |-> ExtractDomain(url), value |-> t, expires_at |-> t + TtlMinutes]}

RateUrls ==
    { Url(<<"a">>, <<>>, "/"), Url(<<"A">>, <<>>, "/shop"),
      Url(<<"a">>, <<"4", "4", "3">>, "/") }

NoRecord == [called |-> FALSE, url |-> Url(<<>>, <<>>, ""), at |-> 0]

InitRate ==
    /\ rateMarks = {}
    /\ lastRecord = NoRecord
    /\ lastAllowed = [called |-> FALSE, url |-> Url(<<>>, <<>>, ""), at |-> 0,
                      ret |-> TRUE, record |-> NoRecord]

\* A caller asks is_allowed(url).
CallIsAllowed(url) ==
    /\ lastAllowed' = [called |-> TRUE, url |-> url, at |-> now,
                       ret |-> IsAllowed(rateMarks, url, now), record |-> lastRecord]
    /\ UNCHANGED <<now, rateMarks, lastRecord, notRate>>

\* A caller does record_scan(url).
CallRecordScan(url) ==
    /\ rateMarks' = RecordScan(rateMarks, url, now)
    /\ lastRecord' = [called |-> TRUE, url |-> url, at |-> now]
    /\ UNCHANGED <<now, lastAllowed, notRate>>

NextRate ==
    \/ \E url \in RateUrls : CallIsAllowed(url)
    \/ \E url \in RateUrls : CallRecordScan(url)
    \/ Tick(1, MaxRateTime)


\* ------------------------------------------------------------------------
\* pipeline/monitoring_pipeline.py : MonitoringPipeline, the scheduler.
\* In this section the clock moves an hour (60 minutes) at a time.
\* ------------------------------------------------------------------------
MinutesPerHour == 60

MinutesPerDay == 1440

\* The UTC offset, in minutes, of the time zones the schedules name.
UtcOffset(tz) == IF tz = "Etc/GMT-1" THEN 60 ELSE 0

\* A cron expression "M */K * * *" (minute M of every K-th hour of the day)
\* is held as [minute |-> M, every |-> K].
CronMatches(expression, offset, t) ==
    LET local == (t + offset) % MinutesPerDay
    IN  /\ local % MinutesPerHour = expression.minute
        /\ (local \div MinutesPerHour) % expression.every = 0

RECURSIVE CronNextFrom(_, _, _)

CronNextFrom(expression, offset, t) ==
    IF CronMatches(expression, offset, t) THEN t
    ELSE CronNextFrom(expression, offset, t + MinutesPerHour)

\* The first occurrence of the expression strictly after t, read on a clock
\* that is `offset` minutes ahead of UTC.
CronNext(expression, offset, t) ==
    LET first == t + 1 + ((expression.minute - (t + 1 + offset)) % MinutesPerHour)
    IN  CronNextFrom(expression, offset, first)

DefaultIntervalMinutes == 60

\* The monitoring_configs rows the pipeline is started on.
SchedConfigs == {"c1", "c2"}

ConfigRows ==
    [c \in SchedConfigs |->
        IF c = "c1"
        THEN [url |-> Url(<<"a">>, <<>>, "/"), enabled |-> TRUE, next_scan_at |-> -1,
              scan_config |-> [priority |-> "normal"],
              schedule |-> [type |-> "cron", expression |-> [minute |-> 0, every |-> 2]]]
        ELSE [url |-> Url(<<"A">>, <<>>, "/shop"), enabled |-> TRUE, next_scan_at |-> -1,
              scan_config |-> [priority |-> "normal"],
              schedule |-> [type |-> "cron", expression |-> [minute |-> 0, every |-> 2],
                            timezone |-> "Etc/GMT-1"]]]

\* The MonitoringConfig _load_monitoring_configs builds from a row.
MonitoringConfig(id, row) == [id |-> id, url |-> row.url, schedule |-> row.schedule]

\* CronTrigger.from_crontab accepts the expression: its minute field is a
\* minute of the hour and its hour step is positive.
ValidCron(expression) ==
    expression.minute \in 0..(MinutesPerHour - 1) /\ expression.every >= 1

\* The trigger _schedule_config builds: CronTrigger.from_crontab in the
\* schedule's time zone (UTC by default), IntervalTrigger(minutes), or none
\* for another schedule type.  from_crontab raises ValueError on an
\* expression it cannot parse.
TriggerOf(schedule) ==
    IF schedule.type = "cron" /\ ~ValidCron(schedule.expression)
    THEN [kind |-> "raise"]
    ELSE IF schedule.type = "cron"
    THEN [kind |-> "cron", expression |-> schedule.expression,
          offset |-> UtcOffset(Get(schedule, "timezone", "UTC"))]
    ELSE IF schedule.type = "interval"
    THEN [kind |-> "interval", minutes |-> Get(schedule, "minutes", DefaultIntervalMinutes)]
    ELSE [kind |-> "none"]

\* The trigger's next fire time after a run at time t (or after the job was
\* added at time t).
NextFireTime(trigger, t) ==
    IF trigger.kind = "cron" THEN CronNext(trigger.expression, trigger.offset, t)
    ELSE t + trigger.minutes

\* job_id = f"scan_{config.id}"
JobId(config_id) == <<"scan", config_id>>

\* scheduler.get_job(job_id) finds a job: one with this id is in the store.
HasJob(js, job_id) == \E j \in js : j.id = job_id

\* The jobs of one config.
JobsOf(js, config_id) == {j \in js : j.id = JobId(config_id)}

\* No removal of the job that exists.
KeepJob(js, job_id) == js

\* if scheduler.get_job(job_id): scheduler.remove_job(job_id)
RemoveJob(js, job_id) == {j \in js : j.id # job_id}

\* scheduler.add_job(func=_trigger_scan, trigger, id=job_id, args=[config]):
\* the job joins the store. The store's own refusal of an id it already
\* holds is not relied on: the callers remove the job of the id first.
AddJob(js, job) == js \cup {job}

\* An exception of _schedule_config that is left to the caller.
ScheduleErrorEscapes(trigger) == trigger

\* The `except Exception` of _schedule_config: the error is logged and the
\* call returns without a trigger.
LogScheduleError(trigger) == IF trigger.kind = "raise" THEN [kind |-> "none"] ELSE trigger

\* _schedule_config: the job scan_{id} is replaced by one with this config as
\* its argument; an unknown schedule type, or a schedule that cannot be
\* parsed, leaves the config without a job.
ScheduleConfig(js, config, t) ==
    LET trigger == LogScheduleError(TriggerOf(config.schedule))
        others == RemoveJob(js, JobId(config.id))
    IN  IF trigger.kind \in {"none", "raise"} THEN others
        ELSE AddJob(others, [id |-> JobId(config.id), config |-> config,
                             trigger |-> trigger,
                             next_run_time |-> NextFireTime(trigger, t)])

\* _calculate_next_scan_time: croniter(expression, now) with now in UTC for a
\* cron schedule, now + minutes for an interval, else now + one hour.
CalculateNextScanTime(config, t) ==
    IF config.schedule.type = "cron"
    THEN CronNext(config.schedule.expression, 0, t)
    ELSE IF config.schedule.type = "interval"
    THEN t + Get(config.schedule, "minutes", DefaultIntervalMinutes)
    ELSE t + MinutesPerHour

\* create_scan_scheduled_message
ScanScheduledMessage(config) ==
    [type |-> "scan_scheduled", source |-> "scheduler",
     data |-> [config_id |-> config.id, url |-> config.url]]

\* What one run of _trigger_scan meets.
TriggerEnvs ==
    [get : RedisOutcomes, setex : RedisOutcomes, db : {"ok", "error"}, faults : FaultSeqs]

ReliableTriggerEnv == [get |-> "ok", setex |-> "ok", db |-> "ok", faults |-> NoFaults]

\* _update_scan_scheduled: the row's next_scan_at is set from the config now
\* in active_configs; a missing config or a store error is logged only.
UpdateScanScheduled(db, active, config_id, t, e) ==
    IF config_id \in DOMAIN active /\ e.db = "ok" /\ config_id \in DOMAIN db
    THEN [db EXCEPT ![config_id].next_scan_at = CalculateNextScanTime(active[config_id], t)]
    ELSE db

\* A publish that passes no key.
UnkeyedScan(config) == NoKey

\* key=config.url
ScanKey(config) == IF Netloc(config.url) = <<>> /\ config.url.path = ""
                   THEN NoKey ELSE [set |-> TRUE, value |-> config.url]

\* A blocked trigger that is counted as scheduled as well.
CountBoth(m) == [m EXCEPT !.scans_rate_limited = @ + 1, !.scans_scheduled = @ + 1]

\* self.metrics['scans_rate_limited'] += 1
CountRateLimited(m) == [m EXCEPT !.scans_rate_limited = @ + 1]

\* _trigger_scan(config) as a function of the pipeline state
\* ps = [marks, kc, db, metrics]; the result adds how the run ended.
TriggerScan(ps, active, config, t, e) ==
    IF e.get # "ok"
    THEN [ps |-> ps, outcome |-> "error"]
    ELSE IF ~IsAllowed(ps.marks, config.url, t)
    THEN [ps |-> [ps EXCEPT !.metrics = CountRateLimited(@)],
          outcome |-> "rate_limited"]
    ELSE LET sent == ProduceMessage(ps.kc, "scan.scheduled", ScanScheduledMessage(config),
                                    ScanKey(config), e.faults)
         IN  IF ~sent.ret
             THEN [ps |-> [ps EXCEPT !.kc = sent.kc], outcome |-> "publish_failed"]
             ELSE IF e.setex # "ok"
             THEN [ps |-> [ps EXCEPT !.kc = sent.kc], outcome |-> "error"]
             ELSE [ps |-> [ps EXCEPT
                             !.kc = sent.kc,
                             !.marks = RecordScan(@, config.url, t),
                             !.metrics.scans_scheduled = @ + 1,
                             !.db = UpdateScanScheduled(@, active, config.id, t, e)],
                   outcome |-> "published"]

Pipeline == [marks |-> rateMarks, kc |-> Client, db |-> configsDb, metrics |-> metrics]

\* The scheduler runs the job of config c, which is due, and sets the job's
\* next run time from its trigger.
Fire(c, e) ==
    \E job \in JobsOf(jobs, c) :
        /\ job.next_run_time = now
        /\ LET r == TriggerScan(Pipeline, activeConfigs, job.config, now, e)
           IN  /\ rateMarks' = r.ps.marks
               /\ topics' = r.ps.kc.topics
               /\ configsDb' = r.ps.db
               /\ metrics' = r.ps.metrics
               /\ lastTrigger' = [config_id |-> c, at |-> now, outcome |-> r.outcome,
                                  schedule |-> job.config.schedule]
        /\ jobs' = (jobs \ {job}) \cup
                       {[job EXCEPT !.next_run_time = NextFireTime(job.trigger, now)]}
        /\ UNCHANGED <<now, activeConfigs, lastAdmin, notSched>>

\* An hour passes, once every job that is due has run.
SchedTick ==
    /\ \A job \in jobs : job.next_run_time > now
    /\ Tick(MinutesPerHour, MaxHours * MinutesPerHour)

RECURSIVE ScheduleAll(_, _, _, _)

\* The loop of _load_monitoring_configs over the enabled rows.
ScheduleAll(js, db, ids, t) ==
    IF ids = {} THEN js
    ELSE LET c == CHOOSE i \in ids : TRUE
             scheduled == ScheduleConfig(js, MonitoringConfig(c, db[c]), t)
         IN  \* an exception that leaves _schedule_config ends the loop
             IF LogScheduleError(TriggerOf(db[c].schedule)).kind = "raise" THEN scheduled
             ELSE ScheduleAll(scheduled, db, ids \ {c}, t)

EnabledIds(db) == {c \in DOMAIN db : db[c].enabled}

\* _load_monitoring_configs: active_configs is cleared and refilled from the
\* enabled rows, and each of them is scheduled; the jobs of other ids are
\* not touched.
LoadMonitoringConfigs(js, db, t) ==
    [active |-> [c \in EnabledIds(db) |-> MonitoringConfig(c, db[c])],
     jobs |-> ScheduleAll(js, db, EnabledIds(db), t)]

\* What lastAdmin holds before any load or mutation has completed.
NoAdmin == [op |-> "", config_id |-> "", existed |-> FALSE, result |-> ""]

\* _reload_configs, the periodic reload.
ReloadConfigs ==
    /\ LET loaded == LoadMonitoringConfigs(jobs, configsDb, now)
       IN  /\ activeConfigs' = loaded.active
           /\ jobs' = loaded.jobs
    /\ lastAdmin' = [op |-> "reload", config_id |-> "", existed |-> FALSE, result |-> ""]
    /\ UNCHANGED <<now, topics, rateMarks, configsDb, metrics, lastTrigger, notSched>>

\* The ids uuid4() gives to the configs that are added.
NewConfigs == {"c3"}

\* The config_data an administrator adds: 'enabled' is optional.
NewConfigData ==
    { [url |-> Url(<<"b">>, <<>>, "/"), scan_config |-> [priority |-> "normal"],
       schedule |-> [type |-> "interval"]],
      [url |-> Url(<<"b">>, <<>>, "/"), scan_config |-> [priority |-> "normal"],
       schedule |-> [type |-> "interval"], enabled |-> FALSE] }

\* add_monitoring_config(config_data): a row with a fresh id is inserted and
\* the configs are loaded again; the id is returned.
AddMonitoringConfig(config_id, config_data) ==
    /\ config_id \notin DOMAIN configsDb \cup DOMAIN activeConfigs
    /\ JobsOf(jobs, config_id) = {}
    /\ LET row == [url |-> config_data.url, enabled |-> Get(config_data, "enabled", TRUE),
                   next_scan_at |-> -1, scan_config |-> config_data.scan_config,
                   schedule |-> config_data.schedule]
           db == [c \in DOMAIN configsDb \cup {config_id} |->
                     IF c = config_id THEN row ELSE configsDb[c]]
           loaded == LoadMonitoringConfigs(jobs, db, now)
       IN  /\ configsDb' = db
           /\ activeConfigs' = loaded.active
           /\ jobs' = loaded.jobs
    /\ lastAdmin' = [op |-> "add", config_id |-> config_id, existed |-> FALSE,
                     result |-> config_id]
    /\ UNCHANGED <<now, topics, rateMarks, metrics, lastTrigger, notSched>>

\* The updates an administrator makes to a config.
ConfigUpdates ==
    { [enabled |-> FALSE], [enabled |-> TRUE], [schedule |-> [type |-> "interval"]] }

\* update_monitoring_config(config_id, updates): the row's columns are set
\* and, when a row was updated ("UPDATE 1"), the configs are loaded again and
\* True is returned; without such a row nothing changes and False is returned.
UpdateMonitoringConfig(config_id, updates) ==
    /\ IF config_id \in DOMAIN configsDb
       THEN LET row == [k \in DOMAIN configsDb[config_id] |->
                          IF k \in DOMAIN updates THEN updates[k]
                          ELSE configsDb[config_id][k]]
                db == [configsDb EXCEPT ![config_id] = row]
                loaded == LoadMonitoringConfigs(jobs, db, now)
            IN  /\ configsDb' = db
                /\ activeConfigs' = loaded.active
                /\ jobs' = loaded.jobs
       ELSE UNCHANGED <<configsDb, activeConfigs, jobs>>
    /\ lastAdmin' = [op |-> "update", config_id |-> config_id,
                     existed |-> config_id \in DOMAIN configsDb,
                     result |-> config_id \in DOMAIN configsDb]
    /\ UNCHANGED <<now, topics, rateMarks, metrics, lastTrigger, notSched>>

\* The entry that is to leave stays.
KeepEntry(d, key) == d

\* dict.pop(key, None): the dict without the key.
Pop(d, key) == [k \in DOMAIN d \ {key} |-> d[k]]

\* delete_monitoring_config(config_id): the job is removed, then the row is
\* deleted and, when a row was deleted ("DELETE 1"), the config leaves
\* active_configs and True is returned; otherwise False is returned.
DeleteMonitoringConfig(config_id) ==
    /\ jobs' = RemoveJob(jobs, JobId(config_id))
    /\ configsDb' = [c \in DOMAIN configsDb \ {config_id} |-> configsDb[c]]
    /\ activeConfigs' = IF config_id \in DOMAIN configsDb
                        THEN Pop(activeConfigs, config_id)
                        ELSE activeConfigs
    /\ lastAdmin' = [op |-> "delete", config_id |-> config_id,
                     existed |-> config_id \in DOMAIN configsDb,
                     result |-> config_id \in DOMAIN configsDb]
    /\ UNCHANGED <<now, topics, rateMarks, metrics, lastTrigger, notSched>>

\* The config ids the administrator's calls name.
AdminConfigs == SchedConfigs \cup NewConfigs

NextSched ==
    \/ \E c \in SchedConfigs : Fire(c, ReliableTriggerEnv)
    \/ ReloadConfigs
    \/ \E c \in SchedConfigs, updates \in ConfigUpdates : UpdateMonitoringConfig(c, updates)
    \/ \E c \in SchedConfigs : DeleteMonitoringConfig(c)
    \/ SchedTick

\* The administrator's calls on the running pipeline, with the scheduler
\* running the jobs that come due in the first hours.
NextAdmin ==
    \/ \E c \in AdminConfigs : Fire(c, ReliableTriggerEnv)
    \/ ReloadConfigs
    \/ \E c \in NewConfigs, config_data \in NewConfigData : AddMonitoringConfig(c, config_data)
    \/ \E c \in AdminConfigs, updates \in ConfigUpdates : UpdateMonitoringConfig(c, updates)
    \/ \E c \in AdminConfigs : DeleteMonitoringConfig(c)
    \/ /\ \A job \in jobs : job.next_run_time > now
       /\ Tick(MinutesPerHour, MaxAdminHours * MinutesPerHour)

\* The pipeline before start(): nothing loaded, nothing scheduled.
InitSched ==
    /\ configsDb = ConfigRows
    /\ activeConfigs = <<>>
    /\ jobs = {}
    /\ metrics = [scans_scheduled |-> 0, scans_rate_limited |-> 0]
    /\ lastTrigger = [config_id |-> "", at |-> 0, outcome |-> "", schedule |-> <<>>]
    /\ lastAdmin = NoAdmin


\* ------------------------------------------------------------------------
\* realtime/websocket_server.py : ConnectionManager and WebSocketServer
\* ------------------------------------------------------------------------
Sockets == {"w1", "w2"}

GatewayConfigs == {"c1", "c2"}

\* The user each websocket authenticates as.
UserOf(w) == IF w = "w1" THEN "u1" ELSE "u2"

Manager == [connections |-> connections, subscriptions |-> subscriptions,
            metadata |-> connMeta]

\* dict[key].discard(x), and the key deleted when its set is left empty.
Discard(d, key, x) ==
    IF key \notin DOMAIN d THEN d
    ELSE IF d[key] \ {x} = {} THEN [k \in DOMAIN d \ {key} |-> d[k]]
    ELSE [d EXCEPT ![key] = @ \ {x}]

\* dict.setdefault(key, set()).add(x)
AddTo(d, key, x) ==
    [k \in DOMAIN d \cup {key} |-> IF k = key
                                   THEN (IF key \in DOMAIN d THEN d[key] ELSE {}) \cup {x}
                                   ELSE d[k]]

\* add_connection
AddConnection(m, websocket, user_id) ==
    [m EXCEPT !.connections = AddTo(@, user_id, websocket),
              !.metadata = [w \in DOMAIN @ \cup {websocket} |->
                               IF w = websocket
                               THEN [user_id |-> user_id, subscriptions |-> {}]
                               ELSE @[w]]]

RECURSIVE DiscardAll(_, _, _)

DiscardAll(d, keys, x) ==
    IF keys = {} THEN d
    ELSE LET k == CHOOSE i \in keys : TRUE
         IN  DiscardAll(Discard(d, k, x), keys \ {k}, x)

\* A removal that forgets the user's entry and leaves the config sets alone.
RemoveFromUserOnly(m, websocket) ==
    IF websocket \notin DOMAIN m.metadata THEN m
    ELSE [m EXCEPT !.connections = Discard(@, m.metadata[websocket].user_id, websocket)]

\* remove_connection: the websocket leaves its user's set and the set of
\* every config its metadata lists; the metadata entry itself stays.
RemoveConnection(m, websocket) ==
    IF websocket \notin DOMAIN m.metadata THEN m
    ELSE [m EXCEPT
            !.connections = Discard(@, m.metadata[websocket].user_id, websocket),
            !.subscriptions = DiscardAll(@, m.metadata[websocket].subscriptions, websocket)]

\* subscribe_to_config
SubscribeToConfig(m, websocket, config_id) ==
    IF websocket \notin DOMAIN m.metadata THEN [m |-> m, ret |-> FALSE]
    ELSE [m |-> [m EXCEPT !.subscriptions = AddTo(@, config_id, websocket),
                          !.metadata[websocket].subscriptions = @ \cup {config_id}],
          ret |-> TRUE]

\* unsubscribe_from_config
UnsubscribeFromConfig(m, websocket, config_id) ==
    IF websocket \notin DOMAIN m.metadata THEN [m |-> m, ret |-> FALSE]
    ELSE [m |-> [m EXCEPT !.subscriptions = Discard(@, config_id, websocket),
                          !.metadata[websocket].subscriptions = @ \ {config_id}],
          ret |-> TRUE]

RECURSIVE RemoveAll(_, _)

\* The clean-up loop of a broadcast over connections_to_remove.
RemoveAll(m, websockets) ==
    IF websockets = {} THEN m
    ELSE LET w == CHOOSE i \in websockets : TRUE
         IN  RemoveAll(RemoveConnection(m, w), websockets \ {w})

\* The websockets in the user index.
Registered == UNION {connections[u] : u \in DOMAIN connections}

AllRegistered(subs, config_id) == Registered

\* The websockets broadcast_to_config sends to: a copy of the config's set.
BroadcastTargets(subs, config_id) ==
    IF config_id \in DOMAIN subs THEN subs[config_id] ELSE {}

\* An authentication check that lets every frame through.
AcceptAll(auth_data) == TRUE

\* _authenticate_connection: user_id and organization_id and token, each
\* read with auth_data.get (a missing key gives None, written "").
Authenticate(auth_data) ==
    /\ Get(auth_data, "user_id", "") # ""
    /\ Get(auth_data, "organization_id", "") # ""
    /\ Get(auth_data, "token", "") # ""

\* The first frames a client may send: its credentials, with or without a
\* token or a user id, or a subscribe message sent before any credentials.
AuthData(w) ==
    {[user_id |-> u, organization_id |-> "org", token |-> t] :
        u \in {"", UserOf(w)}, t \in {"", "tok"}}
    \cup {[type |-> "subscribe", config_id |-> "c1"]}

NoFrame == [type |-> "none"]

\* The entries of a dict after its keys went from `old` to `new`: a new key
\* is appended, the entry of a deleted key stays where it was.
KeyOrder(order, old, new) ==
    IF DOMAIN new \subseteq DOMAIN old THEN order
    ELSE Append(order, CHOOSE k \in DOMAIN new \ DOMAIN old : TRUE)

SetManager(m) ==
    /\ connections' = m.connections
    /\ subscriptions' = m.subscriptions
    /\ connMeta' = m.metadata
    /\ connOrder' = KeyOrder(connOrder, connections, m.connections)

InitGateway ==
    /\ wsState = [w \in Sockets |-> "idle"]
    /\ wsLink = [w \in Sockets |-> "up"]
    /\ connections = <<>>
    /\ subscriptions = <<>>
    /\ connMeta = <<>>
    /\ received = [w \in Sockets |-> {}]
    /\ broadcasts = <<>>
    /\ presented = [w \in Sockets |-> NoFrame]
    /\ connOrder = <<>>
    /\ healthRuns = <<>>

\* _handle_connection up to its message loop: the first frame is the
\* authentication; a failed one is answered with auth_error and the socket
\* closed, a good one registers the websocket and answers auth_success.
Connect(w, auth_data) ==
    /\ wsState[w] = "idle"
    /\ wsLink[w] = "up"
    /\ IF ~Authenticate(auth_data)
       THEN /\ received' = [received EXCEPT ![w] = @ \cup {[type |-> "auth_error"]}]
            /\ wsState' = [wsState EXCEPT ![w] = "closed"]
            /\ wsLink' = [wsLink EXCEPT ![w] = "down"]
            /\ UNCHANGED <<connections, subscriptions, connMeta, connOrder>>
       ELSE /\ SetManager(AddConnection(Manager, w, Get(auth_data, "user_id", "")))
            /\ received' = [received EXCEPT ![w] = @ \cup {[type |-> "auth_success"]}]
            /\ wsState' = [wsState EXCEPT ![w] = "registered"]
            /\ UNCHANGED wsLink
    /\ presented' = [presented EXCEPT ![w] = auth_data]
    /\ UNCHANGED <<broadcasts, healthRuns, notGateway>>

\* _handle_message for a subscribe frame.
Subscribe(w, config_id) ==
    /\ wsState[w] = "registered"
    /\ wsLink[w] = "up"
    /\ LET r == SubscribeToConfig(Manager, w, config_id)
       IN  /\ SetManager(r.m)
           /\ received' = [received EXCEPT ![w] = @ \cup
                             {[type |-> "subscription_response", config_id |-> config_id,
                               success |-> r.ret]}]
    /\ UNCHANGED <<wsState, wsLink, broadcasts, presented, healthRuns, notGateway>>

\* _handle_message for an unsubscribe frame.
Unsubscribe(w, config_id) ==
    /\ wsState[w] = "registered"
    /\ wsLink[w] = "up"
    /\ LET r == UnsubscribeFromConfig(Manager, w, config_id)
       IN  /\ SetManager(r.m)
           /\ received' = [received EXCEPT ![w] = @ \cup
                             {[type |-> "unsubscription_response", config_id |-> config_id,
                               success |-> r.ret]}]
    /\ UNCHANGED <<wsState, wsLink, broadcasts, presented, healthRuns, notGateway>>

\* The peer goes away: from now on a send to the websocket raises
\* ConnectionClosed.
Drop(w) ==
    /\ wsState[w] = "registered"
    /\ wsLink[w] = "up"
    /\ wsLink' = [wsLink EXCEPT ![w] = "down"]
    /\ UNCHANGED <<wsState, connections, subscriptions, connMeta, received, broadcasts,
                   presented, connOrder, healthRuns, notGateway>>

\* The message loop of a closed websocket ends and the `finally` of
\* _handle_connection removes the connection.
HandlerExit(w) ==
    /\ wsState[w] = "registered"
    /\ wsLink[w] = "down"
    /\ SetManager(RemoveConnection(Manager, w))
    /\ wsState' = [wsState EXCEPT ![w] = "closed"]
    /\ UNCHANGED <<wsLink, received, broadcasts, presented, healthRuns, notGateway>>

\* The message _handle_change_detected builds from an event.
ChangeDetectedFrame(event, config_id) ==
    [type |-> "change_detected", config_id |-> config_id, event |-> event]

Broadcasting == broadcasts # <<>> /\ Last(broadcasts).todo # {}

\* _handle_change_detected takes the next change.detected event, of config
\* config_id, and broadcast_to_config copies the set it will send to.
\* `subscribed` notes which registered websockets list the config in their
\* metadata at this moment.
ConsumeChangeDetected(config_id) ==
    /\ ~Broadcasting
    /\ Len(broadcasts) < MaxEvents
    /\ broadcasts' = Append(broadcasts,
          [config_id |-> config_id,
           subscribed |-> {w \in Registered : config_id \in connMeta[w].subscriptions},
           todo |-> BroadcastTargets(subscriptions, config_id),
           attempted |-> {},
           failed |-> {}])
    /\ UNCHANGED <<wsState, wsLink, connections, subscriptions, connMeta, received,
                   presented, connOrder, healthRuns, notGateway>>

\* One turn of the send loop of broadcast_to_config; after the last send the
\* websockets whose send raised are removed.
BroadcastSend(w) ==
    /\ Broadcasting
    /\ w \in Last(broadcasts).todo
    /\ LET n == Len(broadcasts)
           b == broadcasts[n]
           failed == IF wsLink[w] = "up" THEN b.failed ELSE b.failed \cup {w}
       IN  /\ received' = IF wsLink[w] = "up"
                          THEN [received EXCEPT ![w] = @ \cup
                                   {ChangeDetectedFrame(n, b.config_id)}]
                          ELSE received
           /\ broadcasts' = [broadcasts EXCEPT ![n].todo = @ \ {w},
                                               ![n].attempted = @ \cup {w},
                                               ![n].failed = failed]
           /\ IF b.todo = {w}
              THEN SetManager(RemoveAll(Manager, failed))
              ELSE UNCHANGED <<connections, subscriptions, connMeta, connOrder>>
    /\ UNCHANGED <<wsState, wsLink, presented, healthRuns, notGateway>>

NextGateway ==
    \/ \E w \in Sockets : \E auth_data \in AuthData(w) : Connect(w, auth_data)
    \/ \E w \in Sockets, c \in GatewayConfigs : Subscribe(w, c)
    \/ \E w \in Sockets, c \in GatewayConfigs : Unsubscribe(w, c)
    \/ \E w \in Sockets : Drop(w)
    \/ \E w \in Sockets : HandlerExit(w)
    \/ \E c \in GatewayConfigs : ConsumeChangeDetected(c)
    \/ \E w \in Sockets : BroadcastSend(w)

\* _handle_message for a subscribe frame that the websocket had received
\* before its peer went away: subscribe_to_config runs, the send of the
\* response raises ConnectionClosed, which ends the message loop.
BufferedSubscribe(w, config_id) ==
    /\ wsState[w] = "registered"
    /\ wsLink[w] = "down"
    /\ SetManager(SubscribeToConfig(Manager, w, config_id).m)
    /\ UNCHANGED <<wsState, wsLink, received, broadcasts, presented, healthRuns, notGateway>>

\* The gateway with authenticated clients whose last frames are handled
\* after they have gone away.
NextManager ==
    \/ \E w \in Sockets :
          Connect(w, [user_id |-> UserOf(w), organization_id |-> "org", token |-> "tok"])
    \/ \E w \in Sockets, c \in GatewayConfigs : Subscribe(w, c)
    \/ \E w \in Sockets, c \in GatewayConfigs : Unsubscribe(w, c)
    \/ \E w \in Sockets : Drop(w)
    \/ \E w \in Sockets : HandlerExit(w)
    \/ \E c \in GatewayConfigs : ConsumeChangeDetected(c)
    \/ \E w \in Sockets : BroadcastSend(w)
    \/ \E w \in Sockets, c \in GatewayConfigs : BufferedSubscribe(w, c)

\* The message _handle_system_health builds from an event.
SystemHealthFrame(event) == [type |-> "system_health", event |-> event]

\* The position of the first live entry of a dict after position pos, 0 when
\* there is none.  The entry of a deleted key is passed over.
NextEntry(order, conns, pos) ==
    LET live == {i \in DOMAIN order :
                    /\ i > pos
                    /\ order[i] \in DOMAIN conns
                    /\ \A j \in DOMAIN order : j > i => order[j] # order[i]}
    IN  IF live = {} THEN 0 ELSE CHOOSE i \in live : \A j \in live : i <= j

\* One turn of `for user_id in self.connection_manager.connections`: next()
\* on the dict iterator raises RuntimeError when the dict has another size
\* than when the loop began; otherwise it gives the next key, for which
\* broadcast_to_user copies the user's set, or the loop ends and
\* messages_sent is raised by the number of users.
HealthAdvance(run, m, order) ==
    IF Cardinality(DOMAIN m.connections) # run.used
    THEN [run EXCEPT !.phase = "raised", !.todo = {}]
    ELSE LET i == NextEntry(order, m.connections, run.pos)
         IN  IF i = 0
             THEN [run EXCEPT !.phase = "done", !.todo = {},
                              !.messages_sent = Cardinality(DOMAIN m.connections)]
             ELSE [run EXCEPT !.phase = "sending", !.pos = i, !.user = order[i],
                              !.todo = m.connections[order[i]], !.failed = {}]

HealthRunning == healthRuns # <<>> /\ Last(healthRuns).phase = "sending"

\* _handle_system_health takes the next system.health event and starts the
\* loop over the users.  `open` notes the registered websockets that are
\* open at this moment.
ConsumeSystemHealth ==
    /\ ~HealthRunning
    /\ Len(healthRuns) < MaxEvents
    /\ healthRuns' = Append(healthRuns,
          HealthAdvance([open |-> {w \in Registered : wsLink[w] = "up"},
                         used |-> Cardinality(DOMAIN connections),
                         pos |-> 0, user |-> "", todo |-> {}, failed |-> {},
                         phase |-> "start", messages_sent |-> 0],
                        Manager, connOrder))
    /\ UNCHANGED <<wsState, wsLink, connections, subscriptions, connMeta, received,
                   broadcasts, presented, connOrder, notGateway>>

\* One turn of the send loop of broadcast_to_user; after the last send of a
\* user the websockets whose send raised are removed and the loop over the
\* users takes its next turn.
HealthSend(w) ==
    /\ HealthRunning
    /\ w \in Last(healthRuns).todo
    /\ LET n == Len(healthRuns)
           run == healthRuns[n]
           failed == IF wsLink[w] = "up" THEN run.failed ELSE run.failed \cup {w}
       IN  /\ received' = IF wsLink[w] = "up"
                          THEN [received EXCEPT ![w] = @ \cup {SystemHealthFrame(n)}]
                          ELSE received
           /\ IF run.todo = {w}
              THEN LET m == RemoveAll(Manager, failed)
                   IN  /\ SetManager(m)
                       /\ healthRuns' = [healthRuns EXCEPT ![n] =
                              HealthAdvance([run EXCEPT !.failed = failed], m, connOrder)]
              ELSE /\ healthRuns' = [healthRuns EXCEPT ![n].todo = @ \ {w},
                                                       ![n].failed = failed]
                   /\ UNCHANGED <<connections, subscriptions, connMeta, connOrder>>
    /\ UNCHANGED <<wsState, wsLink, broadcasts, presented, notGateway>>

NextHealth ==
    \/ \E w \in Sockets : \E auth_data \in AuthData(w) : Connect(w, auth_data)
    \/ \E w \in Sockets, c \in GatewayConfigs : Subscribe(w, c)
    \/ \E w \in Sockets : Drop(w)
    \/ \E w \in Sockets : HandlerExit(w)
    \/ ConsumeSystemHealth
    \/ \E w \in Sockets : HealthSend(w)


\* ------------------------------------------------------------------------
\* detection/change_detector.py : ChangeDetector, the comparison.
\* A version string is held as the sequence of its dot-separated parts; a
\* part is a number or something int() refuses.  The empty string is <<>>.
\* Percentages and confidences are exact fractions [num, den] (the rounding
\* of floating-point arithmetic is not modelled).
\* ------------------------------------------------------------------------
Num(n) == [digits |-> TRUE, value |-> n]

NotNum == [digits |-> FALSE, value |-> 0]

\* [int(x) for x in version.split('.')] succeeds.
Parses(version) == \A i \in DOMAIN version : version[i].digits

Nginx == <<"n", "g", "i", "n", "x">>

Gtag == <<"g", "t", "a", "g">>

\* _load_technology_importance, for the technologies that occur here.
TechnologyImportance(name) ==
    IF name = Nginx THEN "critical"
    ELSE IF name = Lower(React) THEN "high"
    ELSE IF name = Jquery THEN "medium"
    ELSE IF name = Gtag THEN "low"
    ELSE ""

\* _load_noise_filters, for the technologies that occur here.
IgnoreMinorUpdates == {Gtag, Jquery}

NoisyTechnologies == {Gtag}

\* _assess_tech_impact
AssessTechImpact(tech_name) ==
    IF TechnologyImportance(Lower(tech_name)) = "" THEN "medium"
    ELSE TechnologyImportance(Lower(tech_name))

\* _is_major_version_change
IsMajorVersionChange(old_version, new_version) ==
    /\ old_version # <<>> /\ new_version # <<>>
    /\ old_version[1].digits /\ new_version[1].digits
    /\ old_version[1].value # new_version[1].value

\* _assess_version_impact
AssessVersionImpact(tech_name, old_version, new_version) ==
    LET base_impact == AssessTechImpact(tech_name)
        current_idx == IF IndexOf(ImpactLevels, base_impact) = -1 THEN 1
                       ELSE IndexOf(ImpactLevels, base_impact)
        raised_idx == IF current_idx + 1 < Len(ImpactLevels) - 1
                      THEN current_idx + 1 ELSE Len(ImpactLevels) - 1
    IN  IF IsMajorVersionChange(old_version, new_version)
        THEN ImpactLevels[raised_idx + 1]     \* the list is indexed from 0 in the code
        ELSE base_impact

\* _is_significant_version_change: the first comparison returns whenever
\* both versions parse, so the second is never reached.
IsSignificantVersionChange(old_version, new_version) ==
    IF ~(Parses(old_version) /\ Parses(new_version)) THEN TRUE
    ELSE IF Len(old_version) > 0 /\ Len(new_version) > 0
    THEN old_version[1].value # new_version[1].value
    ELSE IF Len(old_version) > 1 /\ Len(new_version) > 1
    THEN old_version[2].value # new_version[2].value
    ELSE TRUE

\* _is_minor_version_change: only the patch part differs.
IsMinorVersionChange(old_version, new_version) ==
    /\ Parses(old_version) /\ Parses(new_version)
    /\ Len(old_version) >= 3 /\ Len(new_version) >= 3
    /\ old_version[1].value = new_version[1].value
    /\ old_version[2].value = new_version[2].value
    /\ old_version[3].value # new_version[3].value

\* next(t for t in detected if t['name'] == name)
FirstNamed(detected, name) ==
    detected[CHOOSE i \in DOMAIN detected :
                /\ detected[i].name = name
                /\ \A j \in DOMAIN detected : detected[j].name = name => i <= j]

TechNames(detected) == {detected[i].name : i \in DOMAIN detected}

RECURSIVE SeqOfSet(_)

\* The order in which a loop walks a set.
SeqOfSet(S) ==
    IF S = {} THEN <<>>
    ELSE LET x == CHOOSE y \in S : TRUE IN <<x>> \o SeqOfSet(S \ {x})

\* sequence of f(x) for the x of a sequence that pass the test
MapSeq(xs, F(_)) == [i \in DOMAIN xs |-> F(xs[i])]

\* _detect_technology_changes
DetectTechnologyChanges(old_tech, new_tech) ==
    LET old_detected == Get(old_tech, "detected", <<>>)
        new_detected == Get(new_tech, "detected", <<>>)
        old_names == TechNames(old_detected)
        new_names == TechNames(new_detected)
        Added(name) ==
            [type |-> "technology_change", change_type |-> "added",
             technology_name |-> name, old_version |-> <<>>,
             new_version |-> FirstNamed(new_detected, name).version,
             impact_assessment |-> AssessTechImpact(name)]
        Removed(name) ==
            [type |-> "technology_change", change_type |-> "removed",
             technology_name |-> name,
             old_version |-> FirstNamed(old_detected, name).version,
             new_version |-> <<>>,
             impact_assessment |-> AssessTechImpact(name)]
        Changed(name) ==
            LET old_version == FirstNamed(old_detected, name).version
                new_version == FirstNamed(new_detected, name).version
            IN  [type |-> "technology_change", change_type |-> "version_changed",
                 technology_name |-> name, old_version |-> old_version,
                 new_version |-> new_version,
                 impact_assessment |-> AssessVersionImpact(name, old_version, new_version)]
        reported == {name \in old_names \cap new_names :
                        LET old_version == FirstNamed(old_detected, name).version
                            new_version == FirstNamed(new_detected, name).version
                        IN  /\ old_version # <<>> /\ new_version # <<>>
                            /\ old_version # new_version
                            /\ IsSignificantVersionChange(old_version, new_version)}
    IN  MapSeq(SeqOfSet(new_names \ old_names), Added)
           \o MapSeq(SeqOfSet(old_names \ new_names), Removed)
           \o MapSeq(SeqOfSet(reported), Changed)

\* metrics_to_check: key and default threshold, in per cent.
MetricsToCheck ==
    << [key |-> "load_time", default |-> 15], [key |-> "ttfb", default |-> 20],
       [key |-> "fcp", default |-> 20], [key |-> "lcp", default |-> 20],
       [key |-> "cls", default |-> 25], [key |-> "fid", default |-> 30],
       [key |-> "lighthouse_score", default |-> 10] >>

\* abs(change_percent) > bound, for change_percent = num / den with den > 0
\* and bound = bn / bd.
AbsAbove(cp, bn, bd) == Abs(cp.num) * bd > bn * cp.den

AbsBelow(cp, bn, bd) == Abs(cp.num) * bd < bn * cp.den

\* The change the metric loop of _detect_performance_changes appends.
MetricChange(metric, old_value, new_value, threshold) ==
    LET change_percent == [num |-> (new_value - old_value) * 100, den |-> old_value]
    IN  [type |-> "performance_change", change_type |-> "metric",
         metric_name |-> metric.key,
         old_value |-> old_value, new_value |-> new_value,
         change_percent |-> change_percent,
         severity |-> IF AbsAbove(change_percent, threshold * 2, 1) THEN "critical"
                      ELSE IF AbsAbove(change_percent, threshold * 3, 2) THEN "warning"
                      ELSE "info",
         is_degradation |-> IF metric.key # "lighthouse_score"
                            THEN change_percent.num > 0 ELSE change_percent.num < 0]

IssueChange(issue, kind) ==
    [type |-> "performance_change", change_type |-> kind, issue |-> issue,
     severity |-> IF kind = "issue_added" THEN "warning" ELSE "info"]

\* _detect_performance_changes, given the thresholds of the config.
DetectPerformanceChanges(old_perf, new_perf, thresholds) ==
    LET exceeded == SelectSeq(MetricsToCheck, LAMBDA metric :
            /\ metric.key \in DOMAIN old_perf /\ metric.key \in DOMAIN new_perf
            /\ old_perf[metric.key] > 0
            /\ AbsAbove([num |-> (new_perf[metric.key] - old_perf[metric.key]) * 100,
                         den |-> old_perf[metric.key]],
                        Get(thresholds, metric.key, metric.default), 1))
        Metric(metric) == MetricChange(metric, old_perf[metric.key], new_perf[metric.key],
                                       Get(thresholds, metric.key, metric.default))
        old_issues == Get(old_perf, "issues", {})
        new_issues == Get(new_perf, "issues", {})
        AddedIssue(issue) == IssueChange(issue, "issue_added")
        ResolvedIssue(issue) == IssueChange(issue, "issue_resolved")
    IN  MapSeq(exceeded, Metric)
           \o MapSeq(SeqOfSet(new_issues \ old_issues), AddedIssue)
           \o MapSeq(SeqOfSet(old_issues \ new_issues), ResolvedIssue)

\* A reading under which a change without change_percent counts as a large one.
AbsentIsLarge(change) == Get(change, "change_percent", [num |-> 100, den |-> 1])

\* change.get('change_percent', 0)
ChangePercent(change) == Get(change, "change_percent", [num |-> 0, den |-> 1])

\* _is_noise
IsNoise(change) ==
    IF change.type = "technology_change"
    THEN \E noisy \in NoisyTechnologies : IsSubstring(noisy, Lower(change.technology_name))
    ELSE IF change.type = "performance_change"
    THEN AbsBelow(ChangePercent(change), 2, 1)
    ELSE FALSE

\* A filter without that last test.
NoSmallChangeTest(change) == FALSE

\* The last test of _filter_noise: a performance change under 5 per cent.
IsSmallPerformanceChange(change) ==
    change.type = "performance_change" /\ AbsBelow(ChangePercent(change), 5, 1)

\* _filter_noise
FilterNoise(changes) ==
    SelectSeq(changes, LAMBDA change :
        /\ ~IsNoise(change)
        /\ ~(/\ change.type = "technology_change"
             /\ change.change_type = "version_changed"
             /\ change.technology_name \in IgnoreMinorUpdates
             /\ IsMinorVersionChange(change.old_version, change.new_version))
        /\ ~IsSmallPerformanceChange(change))

RECURSIVE SumSeq(_)

SumSeq(xs) == IF xs = <<>> THEN 0 ELSE Head(xs) + SumSeq(Tail(xs))

\* _calculate_confidence, in hundredths over the number of changes; every
\* change here carries the default confidence 1.0.
CalculateConfidence(changes) ==
    IF changes = <<>> THEN [num |-> 1, den |-> 1]
    ELSE LET Weight(change) ==
                 IF change.type = "technology_change" THEN 90
                 ELSE IF change.type = "performance_change" THEN 70
                 ELSE IF change.type = "security_change" THEN 80
                 ELSE 100
         IN  [num |-> SumSeq(MapSeq(changes, Weight)), den |-> 100 * Len(changes)]

CacheTtlMinutes == 60

\* _get_performance_thresholds: the cached value if there is one; else the
\* performance_thresholds of the config's scan_config, which is then cached
\* for an hour; {} when there is no row or scan_config, or on any error.
\* The result is the thresholds and the cache after the call.
GetPerformanceThresholds(cache, configs, config_id, t, e) ==
    IF e.get # "ok" THEN [thresholds |-> <<>>, cache |-> cache]
    ELSE IF config_id \in DOMAIN cache
    THEN [thresholds |-> cache[config_id].value, cache |-> cache]
    ELSE IF e.db # "ok" THEN [thresholds |-> <<>>, cache |-> cache]
    ELSE IF config_id \in DOMAIN configs /\ configs[config_id].scan_config # <<>>
    THEN LET thresholds == Get(configs[config_id].scan_config, "performance_thresholds", <<>>)
         IN  IF e.setex # "ok" THEN [thresholds |-> <<>>, cache |-> cache]
             ELSE [thresholds |-> thresholds,
                   cache |-> [c \in DOMAIN cache \cup {config_id} |->
                                 IF c = config_id
                                 THEN [value |-> thresholds,
                                       expires_at |-> t + CacheTtlMinutes]
                                 ELSE cache[c]]]
    ELSE [thresholds |-> <<>>, cache |-> cache]

ReliableDetectEnv == [get |-> "ok", db |-> "ok", setex |-> "ok"]

\* _detect_infrastructure_changes: a change of the server software or of
\* the IP address when both scans name one, and any change of the set of
\* CDN providers.
DetectInfrastructureChanges(old_infra, new_infra) ==
    LET old_server == Get(old_infra, "server_software", "")
        new_server == Get(new_infra, "server_software", "")
        old_ip == Get(old_infra, "ip_address", "")
        new_ip == Get(new_infra, "ip_address", "")
        old_cdn == Get(old_infra, "cdn_providers", {})
        new_cdn == Get(new_infra, "cdn_providers", {})
    IN  (IF old_server # "" /\ new_server # "" /\ old_server # new_server
         THEN << [type |-> "infrastructure_change",
                  change_type |-> "server_software_changed", severity |-> "medium",
                  evidence |-> [old_server |-> old_server, new_server |-> new_server]] >>
         ELSE <<>>)
        \o (IF old_ip # "" /\ new_ip # "" /\ old_ip # new_ip
            THEN << [type |-> "infrastructure_change",
                     change_type |-> "ip_address_changed", severity |-> "medium",
                     evidence |-> [old_ip |-> old_ip, new_ip |-> new_ip]] >>
            ELSE <<>>)
        \o (IF old_cdn # new_cdn
            THEN << [type |-> "infrastructure_change",
                     change_type |-> "cdn_changed", severity |-> "info",
                     evidence |-> [old_cdn |-> old_cdn, new_cdn |-> new_cdn,
                                   added_cdns |-> new_cdn \ old_cdn,
                                   removed_cdns |-> old_cdn \ new_cdn]] >>
            ELSE <<>>)

\* detect_changes: the five detectors, the noise filter and the confidence.
\* (The snapshots here carry technologies, performance and infrastructure;
\* on empty security and content sections the other two detectors find
\* nothing.)
DetectChanges(old_scan, new_scan, config_id, cache, configs, t, e) ==
    LET got == GetPerformanceThresholds(cache, configs, config_id, t, e)
        all_changes ==
            DetectTechnologyChanges(Get(old_scan, "technologies", <<>>),
                                    Get(new_scan, "technologies", <<>>))
            \o DetectPerformanceChanges(Get(old_scan, "performance", <<>>),
                                        Get(new_scan, "performance", <<>>),
                                        got.thresholds)
            \o DetectInfrastructureChanges(Get(old_scan, "infrastructure", <<>>),
                                           Get(new_scan, "infrastructure", <<>>))
        meaningful_changes == FilterNoise(all_changes)
    IN  [has_changes |-> Len(meaningful_changes) > 0,
         changes |-> meaningful_changes,
         confidence |-> CalculateConfidence(meaningful_changes),
         cache |-> got.cache]


\* ------------------------------------------------------------------------
\* detection/change_detector.py : detect_changes as a call, and the
\* scan.completed handler.
\* ------------------------------------------------------------------------
MaxScans == 2

MaxDeliveries == 2

Version(major, minor, patch) == <<Num(major), Num(minor), Num(patch)>>

\* A version int() refuses, such as 17.0.0-beta.
BetaVersion == <<Num(17), Num(0), NotNum>>

TechChoices ==
    { << [name |-> React, version |-> Version(17, 0, 0)] >>,
      << [name |-> React, version |-> Version(17, 0, 1)] >>,
      << [name |-> React, version |-> Version(17, 1, 0)] >>,
      << [name |-> React, version |-> Version(18, 0, 0)] >>,
      << [name |-> React, version |-> BetaVersion] >>,
      << [name |-> Jquery, version |-> Version(3, 6, 0)] >>,
      << [name |-> Jquery, version |-> Version(3, 6, 1)] >>,
      << [name |-> Gtag, version |-> Version(1, 0, 0)] >>,
      << [name |-> Gtag, version |-> Version(2, 0, 0)] >>,
      << [name |-> Nginx, version |-> Version(1, 0, 0)],
         [name |-> Jquery, version |-> Version(3, 6, 0)] >>,
      << [name |-> Nginx, version |-> Version(2, 0, 0)] >> }

PerfChoices ==
    { [load_time |-> 1000, lighthouse_score |-> 100],
      [load_time |-> 1030, lighthouse_score |-> 97],
      [load_time |-> 1050], [load_time |-> 1200],
      [load_time |-> 0, issues |-> {"render-blocking"}] }

\* The result_summary documents compared.
CompareSnapshots ==
    {[technologies |-> [detected |-> tech]] : tech \in TechChoices}
    \cup {[performance |-> perf] : perf \in PerfChoices}

\* The scan_config documents a config may have.
ScanConfigChoices ==
    { [priority |-> "normal"],
      [priority |-> "normal",
       performance_thresholds |-> [load_time |-> 1, lighthouse_score |-> 2]],
      [priority |-> "normal", performance_thresholds |-> [load_time |-> 4]] }

DetectConfigs == {"c1", "c3"}

\* The thresholds the config's row holds at this moment.
ConfiguredThresholds(configs, config_id) ==
    IF config_id \in DOMAIN configs
    THEN Get(configs[config_id].scan_config, "performance_thresholds", <<>>)
    ELSE <<>>

NoDetect ==
    [ran |-> FALSE, flip |-> FALSE, old |-> <<>>, new |-> <<>>, config_id |-> "",
     configured |-> <<>>, has_changes |-> FALSE, changes |-> <<>>,
     confidence |-> [num |-> 1, den |-> 1]]

\* One call detect_changes(old_scan, new_scan, config_id).
Detect(old_scan, new_scan, config_id, e) ==
    /\ \E r \in {DetectChanges(old_scan, new_scan, config_id, thresholdCache, configsDb,
                                now, e)} :
           /\ thresholdCache' = r.cache
           /\ lastDetect' =
                 [ran |-> TRUE, flip |-> ~lastDetect.flip,
                  old |-> old_scan, new |-> new_scan, config_id |-> config_id,
                  configured |-> ConfiguredThresholds(configsDb, config_id),
                  has_changes |-> r.has_changes, changes |-> r.changes,
                  confidence |-> r.confidence]
    /\ UNCHANGED <<now, busVars, alertVars, rateVars, schedVars, gatewayVars, life, runs,
                   scanResults, changesDb, emissions, deliveries>>

NextCompare ==
    \E old_scan \in CompareSnapshots, new_scan \in CompareSnapshots :
        Detect(old_scan, new_scan, "c1", ReliableDetectEnv)

\* The snapshots of the calls whose thresholds change between them.
ThresholdSnapshots ==
    { [performance |-> [load_time |-> 1000]], [performance |-> [load_time |-> 1050]],
      [performance |-> [load_time |-> 1200]] }

NextThresholds ==
    \/ \E old_scan \in ThresholdSnapshots, new_scan \in ThresholdSnapshots :
          Detect(old_scan, new_scan, "c1", ReliableDetectEnv)
    \/ \E scan_config \in ScanConfigChoices :
          UpdateMonitoringConfig("c1", [scan_config |-> scan_config])
    \/ Tick(MinutesPerHour, MaxHours * MinutesPerHour)

\* The result_summary documents the scan workers report; the empty one is
\* what the handler calls an invalid message.
ReportedSnapshots ==
    { <<>>,
      [technologies |-> [detected |-> << [name |-> React,
                                          version |-> Version(17, 0, 0)] >>],
       infrastructure |-> [server_software |-> "apache"]],
      [technologies |-> [detected |-> << [name |-> React,
                                          version |-> Version(18, 0, 0)] >>],
       performance |-> [load_time |-> 1200],
       infrastructure |-> [server_software |-> "nginx"]] }

\* create_scan_completed_message
ScanCompletedMessage(config_id, scan_id, result_summary) ==
    [type |-> "scan_completed", source |-> "scan_worker",
     data |-> [config_id |-> config_id, scan_id |-> scan_id,
               result_summary |-> result_summary]]

\* create_change_detected_message
ChangeDetectedMessage(config_id, change) ==
    [type |-> "change_detected", source |-> "change_detector",
     data |-> [config_id |-> config_id, change_type |-> change.type,
               change_details |-> change]]

\* A scan worker finishes a scan and publishes scan.completed.  Scans are
\* numbered in the order of their timestamps.
WorkerPublish(config_id, result_summary) ==
    /\ producer
    /\ Len(topics["scan.completed"]) < MaxScans
    /\ topics' = [topics EXCEPT !["scan.completed"] =
                     Append(@, ScanCompletedMessage(config_id, Len(@) + 1, result_summary))]
    /\ deliveries' = Append(deliveries, 0)
    /\ UNCHANGED <<now, producer, lastProduce, offsets, lastConsume, consumers, handled, alertVars, rateVars,
                   schedVars, gatewayVars, life, runs, thresholdCache, lastDetect, scanResults,
                   changesDb, emissions>>

\* The scan worker's row of scan_results for a scan it has reported.
WorkerStore(scan_id) ==
    /\ scan_id \in DOMAIN topics["scan.completed"]
    /\ \A i \in DOMAIN scanResults : scanResults[i].id # scan_id
    /\ LET data == topics["scan.completed"][scan_id].data
       IN  scanResults' = Append(scanResults,
              [id |-> scan_id, config_id |-> data.config_id, status |-> "completed",
               scan_timestamp |-> scan_id, result_summary |-> data.result_summary])
    /\ UNCHANGED <<now, busVars, alertVars, rateVars, schedVars, gatewayVars, life, runs,
                   thresholdCache, lastDetect, changesDb, emissions, deliveries>>

NoScan == [id |-> 0]

\* _get_previous_scan: the first row of the config's completed scans, newest
\* first; None when there is none or the query fails.
GetPreviousScan(rows, config_id, e) ==
    LET mine == {i \in DOMAIN rows :
                    rows[i].config_id = config_id /\ rows[i].status = "completed"}
    IN  IF e.previous # "ok" \/ mine = {} THEN NoScan
        ELSE rows[CHOOSE i \in mine :
                     \A j \in mine : rows[j].scan_timestamp <= rows[i].scan_timestamp]

ChangeTables == {"technology_change", "performance_change", "security_change"}

\* key=config_id
ChangeKey(config_id) == StringKey(config_id)

RECURSIVE ProcessLoop(_, _, _, _, _, _, _)

\* The loop of _process_detected_changes from change i on: the change's row
\* is inserted, then its change.detected message is produced.  st.raised is
\* set when an insert raises.
ProcessLoop(st, config_id, old_scan_id, scan_id, changes, i, e) ==
    IF i > Len(changes) THEN st
    ELSE IF changes[i].type \in ChangeTables /\ e.insert_fails_at = i
    THEN [st EXCEPT !.raised = TRUE]
    ELSE LET produced == ProduceMessage(st.kc, "change.detected",
                                        ChangeDetectedMessage(config_id, changes[i]),
                                        ChangeKey(config_id), e.faults)
             row == [config_id |-> config_id, scan_id |-> scan_id, change |-> changes[i]]
         IN  ProcessLoop([kc |-> produced.kc,
                          rows |-> IF changes[i].type \in ChangeTables
                                   THEN Append(st.rows, row) ELSE st.rows,
                          emitted |-> Append(st.emitted,
                              [config_id |-> config_id, old_scan_id |-> old_scan_id,
                               new_scan_id |-> scan_id, change |-> changes[i],
                               persisted |-> changes[i].type \in ChangeTables,
                               published |-> produced.ret]),
                          raised |-> FALSE],
                         config_id, old_scan_id, scan_id, changes, i + 1, e)

\* _process_detected_changes: the loop inside one transaction; an exception
\* rolls the rows of this call back, the messages already produced stay.
ProcessDetectedChanges(kc, rows, emitted, config_id, old_scan_id, scan_id, changes, e) ==
    LET st == ProcessLoop([kc |-> kc, rows |-> rows, emitted |-> emitted, raised |-> FALSE],
                          config_id, old_scan_id, scan_id, changes, 1, e)
    IN  IF st.raised
        THEN [kc |-> st.kc, rows |-> rows,
              emitted |-> [k \in DOMAIN st.emitted |->
                              IF k > Len(emitted)
                              THEN [st.emitted[k] EXCEPT !.persisted = FALSE]
                              ELSE st.emitted[k]]]
        ELSE [kc |-> st.kc, rows |-> st.rows, emitted |-> st.emitted]

\* What one run of _handle_scan_completed meets.
HandlerEnvs ==
    { [previous |-> "ok", thresholds |-> ReliableDetectEnv, insert_fails_at |-> 0,
       faults |-> NoFaults],
      [previous |-> "error", thresholds |-> ReliableDetectEnv, insert_fails_at |-> 0,
       faults |-> NoFaults],
      [previous |-> "ok", thresholds |-> ReliableDetectEnv, insert_fails_at |-> 2,
       faults |-> NoFaults],
      [previous |-> "ok", thresholds |-> ReliableDetectEnv, insert_fails_at |-> 0,
       faults |-> <<[send |-> "kafka_error", redis |-> "ok"], NoFault>>] }

\* _handle_scan_completed on one delivery of the scan.completed message of
\* scan scan_id.  The bus delivers at least once: a message may be handed
\* to the handler again.
HandleScanCompleted(scan_id, e) ==
    /\ scan_id \in DOMAIN topics["scan.completed"]
    /\ deliveries[scan_id] < MaxDeliveries
    /\ deliveries' = [deliveries EXCEPT ![scan_id] = @ + 1]
    /\ LET data == topics["scan.completed"][scan_id].data
           config_id == data.config_id
           result_summary == data.result_summary
           previous_scan == GetPreviousScan(scanResults, config_id, e)
       IN  IF config_id = "" \/ result_summary = <<>> \/ previous_scan = NoScan
           THEN UNCHANGED <<topics, thresholdCache, lastDetect, changesDb, emissions>>
           ELSE LET r == DetectChanges(previous_scan.result_summary, result_summary,
                                       config_id, thresholdCache, configsDb, now,
                                       e.thresholds)
                    done == IF r.has_changes
                            THEN ProcessDetectedChanges(Client, changesDb, emissions,
                                    config_id, previous_scan.id, data.scan_id, r.changes, e)
                            ELSE [kc |-> Client, rows |-> changesDb, emitted |-> emissions]
                IN  /\ thresholdCache' = r.cache
                    /\ lastDetect' =
                          [ran |-> TRUE, flip |-> ~lastDetect.flip,
                           old |-> previous_scan.result_summary, new |-> result_summary,
                           config_id |-> config_id,
                           configured |-> ConfiguredThresholds(configsDb, config_id),
                           has_changes |-> r.has_changes, changes |-> r.changes,
                           confidence |-> r.confidence]
                    /\ topics' = done.kc.topics
                    /\ changesDb' = done.rows
                    /\ emissions' = done.emitted
    /\ UNCHANGED <<now, producer, lastProduce, offsets, lastConsume, consumers, handled, alertVars, rateVars,
                   schedVars, gatewayVars, life, runs, scanResults>>

NextDetect ==
    \/ \E c \in DetectConfigs, result_summary \in ReportedSnapshots :
          WorkerPublish(c, result_summary)
    \/ \E scan_id \in 1..MaxScans : WorkerStore(scan_id)
    \/ \E scan_id \in 1..MaxScans, e \in HandlerEnvs : HandleScanCompleted(scan_id, e)

\* The change detector before its first message.
InitDetect ==
    /\ thresholdCache = <<>>
    /\ lastDetect = NoDetect
    /\ scanResults = <<>>
    /\ changesDb = <<>>
    /\ emissions = <<>>
    /\ deliveries = <<>>

\* ------------------------------------------------------------------------
\* start() and stop() of the components: MonitoringPipeline, ChangeDetector,
\* AlertEngine and WebSocketServer, each with its KafkaClient.
\* A resource is something start() opens and stop() releases; a step of
\* start() is the resource it opens, or "load" for the first config load.
\* ------------------------------------------------------------------------
Components == {"pipeline", "detector", "engine", "gateway"}

Res(name, i) == [name |-> name, i |-> i]

\* The consumers _setup_consumers creates, in order.
ConsumerSteps(kind) ==
    LET n == CASE kind = "pipeline" -> 2
               [] kind = "detector" -> 1
               [] kind = "engine" -> 2
               [] kind = "gateway" -> 4
    IN  [i \in 1..n |-> Res("consumer", i)]

\* The awaited steps of start(), in order; kafka_redis and producer are the
\* two steps of KafkaClient.start.
StartPlan(kind) ==
    CASE kind = "pipeline" ->
            <<Res("db_pool", 0), Res("redis", 0), Res("kafka_redis", 0), Res("producer", 0),
              Res("scheduler", 0)>> \o ConsumerSteps(kind) \o <<Res("load", 0)>>
      [] kind = "gateway" ->
            <<Res("redis", 0), Res("kafka_redis", 0), Res("producer", 0)>>
               \o ConsumerSteps(kind) \o <<Res("server", 0)>>
      [] OTHER ->
            <<Res("db_pool", 0), Res("redis", 0), Res("kafka_redis", 0), Res("producer", 0)>>
               \o ConsumerSteps(kind)

\* The steps that reach for the bus, the store or the cache, and the
\* listening socket of the gateway: the ones whose failure is explored.
MayFail(step) == step.name # "scheduler"

\* The attributes a step has assigned when it raises: the Redis client and
\* the producer are assigned before they are pinged or started, and the
\* KafkaClient before its start() is awaited.
SetBeforeFailure(step) ==
    CASE step.name = "redis" -> {step}
      [] step.name = "kafka_redis" -> {Res("kafka", 0), step}
      [] step.name = "producer" -> {step}
      [] OTHER -> {}

\* The attributes a step has assigned when it has succeeded.  A consumer is
\* entered in KafkaClient.consumers only after its start().
SetAfterSuccess(step) ==
    CASE step.name = "kafka_redis" -> {Res("kafka", 0), step}
      [] step.name = "load" -> {}
      [] OTHER -> {step}

Opened(step) == IF step.name = "load" THEN {} ELSE {step}

\* The order in which stop() releases: the scheduler (pipeline) or the
\* listening server (gateway) first, then KafkaClient.stop - the producer,
\* the consumers, its Redis client - then the Redis client and the pool.
ReleaseOrder(kind) ==
    (IF kind = "pipeline" THEN <<Res("scheduler", 0)>>
     ELSE IF kind = "gateway" THEN <<Res("server", 0)>> ELSE <<>>)
    \o <<Res("producer", 0)>> \o ConsumerSteps(kind) \o <<Res("kafka_redis", 0)>>
    \o <<Res("redis", 0)>>
    \o (IF kind = "gateway" THEN <<>> ELSE <<Res("db_pool", 0)>>)

\* A failed start that re-raises without releasing anything.
NoRelease(kind, attrs) == <<>>

\* stop(): each `if self.x:` releases what has been assigned.
ReleasePlan(kind, attrs) == SelectSeq(ReleaseOrder(kind), LAMBDA r : r \in attrs)

\* The connections a consumer callback works with: the producer, the store
\* and the cache.
UsedByHandlers == {Res("producer", 0), Res("db_pool", 0), Res("redis", 0)}

NewComponent(kind) ==
    [kind |-> kind, phase |-> "new", running |-> FALSE, was_running |-> FALSE,
     attrs |-> {}, open |-> {}, todo |-> <<>>, cause |-> "", raised |-> FALSE,
     inflight |-> {}, released_under |-> {}, failed_step |-> Res("", 0)]

InitLife == life = NewComponent("pipeline")

RECURSIVE RunSteps(_, _)

\* The steps of start() that succeed.
RunSteps(c, steps) ==
    IF steps = <<>> THEN c
    ELSE RunSteps([c EXCEPT !.attrs = @ \cup SetAfterSuccess(Head(steps)),
                            !.open = @ \cup Opened(Head(steps))],
                  Tail(steps))

\* stop() has nothing left to release: it returns, and the `raise` of a
\* failed start() then reaches the caller.
Returned(c) ==
    IF c.todo # <<>> THEN c
    ELSE [c EXCEPT !.phase = IF c.cause = "start" THEN "failed" ELSE "stopped",
                   !.raised = (c.cause = "start")]

\* start(): the steps up to step number fail_at succeed and that step
\* raises, or (fail_at = 0) all succeed and running is set.  The except
\* branch calls stop() and raises again.
Start(fail_at) ==
    /\ life.phase = "new"
    /\ LET plan == StartPlan(life.kind)
       IN  IF fail_at = 0
           THEN life' = [RunSteps(life, plan) EXCEPT !.phase = "running", !.running = TRUE,
                                                     !.was_running = TRUE]
           ELSE /\ fail_at \in DOMAIN plan
                /\ MayFail(plan[fail_at])
                /\ LET c == RunSteps(life, SubSeq(plan, 1, fail_at - 1))
                       attrs == c.attrs \cup SetBeforeFailure(plan[fail_at])
                   IN  life' = Returned([c EXCEPT !.attrs = attrs,
                                                  !.failed_step = plan[fail_at],
                                                  !.phase = "stopping",
                                                  !.cause = "start",
                                                  !.running = FALSE,
                                                  !.todo = ReleasePlan(c.kind, attrs)])
    /\ UNCHANGED <<now, busVars, alertVars, rateVars, schedVars, gatewayVars, detectVars, runs>>

\* stop() called on the running component: running is cleared and the
\* releases begin.
StopBegin ==
    /\ life.phase = "running"
    /\ life' = Returned([life EXCEPT !.phase = "stopping", !.cause = "stop",
                                     !.running = FALSE,
                                     !.todo = ReleasePlan(life.kind, life.attrs)])
    /\ UNCHANGED <<now, busVars, alertVars, rateVars, schedVars, gatewayVars, detectVars, runs>>

\* The next awaited release of stop().  `released_under` notes the
\* resources released while a consumer callback was in flight.
StopStep ==
    /\ life.phase = "stopping"
    /\ life.todo # <<>>
    /\ LET r == Head(life.todo)
       IN  life' = Returned([life EXCEPT
                      !.todo = Tail(@),
                      !.open = @ \ {r},
                      !.released_under = IF life.inflight # {} THEN @ \cup {r} ELSE @])
    /\ UNCHANGED <<now, busVars, alertVars, rateVars, schedVars, gatewayVars, detectVars, runs>>

\* The _consume_messages task of consumer i takes a record and awaits the
\* component's handler.
HandlerStart(i) ==
    /\ Res("consumer", i) \in life.open
    /\ i \notin life.inflight
    /\ life' = [life EXCEPT !.inflight = @ \cup {i}]
    /\ UNCHANGED <<now, busVars, alertVars, rateVars, schedVars, gatewayVars, detectVars, runs>>

\* The handler returns (or raises into the task's own except).
HandlerEnd(i) ==
    /\ i \in life.inflight
    /\ life' = [life EXCEPT !.inflight = @ \ {i}]
    /\ UNCHANGED <<now, busVars, alertVars, rateVars, schedVars, gatewayVars, detectVars, runs>>

MaxConsumers == 4

NextLife ==
    \/ \E fail_at \in 0..(MaxConsumers + 6) : Start(fail_at)
    \/ StopBegin
    \/ StopStep
    \/ \E i \in 1..MaxConsumers : HandlerStart(i)
    \/ \E i \in 1..MaxConsumers : HandlerEnd(i)

\* ------------------------------------------------------------------------
\* pipeline/monitoring_pipeline.py : the scheduler's executor.  A job that is
\* due is submitted to the executor, which runs _trigger_scan as a task of
\* the event loop; the task gives way at each of its awaits.
\* ------------------------------------------------------------------------
\* More than one instance of a job at a time.
TwoInstances(job) == 2

\* add_job(..., max_instances=1)
MaxInstances(job) == 1

\* add_job(..., coalesce=True)
Coalesce(job) == TRUE

\* add_job(..., misfire_grace_time=300), in minutes
MisfireGraceMinutes == 5

RECURSIVE RunTimes(_, _, _)

\* The fire times of a job from `from` up to t: what the scheduler finds due
\* when it wakes at t.
RunTimes(trigger, from, t) ==
    IF from > t THEN <<>>
    ELSE <<from>> \o RunTimes(trigger, NextFireTime(trigger, from), t)

\* The run times the scheduler submits: the last one only for a job that
\* coalesces.
Submitted(job, t) ==
    LET run_times == RunTimes(job.trigger, job.next_run_time, t)
    IN  IF Coalesce(job) /\ run_times # <<>> THEN <<Last(run_times)>> ELSE run_times

\* The runs of _trigger_scan in progress for a job id.
Instances(active, job_id) == {r \in active : r.job_id = job_id}

NoSubmission == [job_id |-> <<>>, due |-> 0, started |-> 0, skipped |-> FALSE,
                 during |-> NoAdmin]

InitRuns == runs = [active |-> {}, started |-> 0, last |-> NoSubmission]

\* The most runs the executor is given.
MaxRuns == 3

\* The minutes the clock runs while the executor is watched.
MaxRunMinutes == 3

\* The scheduler wakes and finds the job of config c due.  The executor
\* refuses the job while max_instances of its id are running; otherwise one
\* task is created, which runs _trigger_scan for the run times that are
\* within the grace time, one after the other.  Either way the job's next
\* run time moves past now.
ProcessJob(c) ==
    \E job \in JobsOf(jobs, c) :
        /\ job.next_run_time <= now
        /\ runs.started < MaxRuns
        /\ LET run_times == Submitted(job, now)
               due == Len(RunTimes(job.trigger, job.next_run_time, now))
               in_grace == SelectSeq(run_times, LAMBDA t : now - t <= MisfireGraceMinutes)
               refused == Cardinality(Instances(runs.active, job.id)) >= MaxInstances(job)
               n == runs.started + 1
           IN  /\ runs' =
                     IF refused \/ in_grace = <<>>
                     THEN [runs EXCEPT !.last = [job_id |-> job.id, due |-> due, started |-> 0,
                                                 skipped |-> refused, during |-> lastAdmin]]
                     ELSE [active |-> runs.active \cup
                                        {[n |-> n, job_id |-> job.id, config |-> job.config,
                                          todo |-> Len(in_grace), pc |-> "is_allowed",
                                          admin |-> lastAdmin]},
                           started |-> n,
                           last |-> [job_id |-> job.id, due |-> due, started |-> 1,
                                     skipped |-> FALSE, during |-> lastAdmin]]
               /\ jobs' = (jobs \ {job}) \cup
                             {[job EXCEPT !.next_run_time =
                                   NextFireTime(job.trigger, Last(run_times))]}
    /\ UNCHANGED <<now, busVars, alertVars, rateVars, configsDb, activeConfigs, metrics,
                   lastTrigger, lastAdmin, gatewayVars, life, detectVars>>

\* What the awaits of one run of _trigger_scan may meet: all goes well, or
\* one of the Redis read, the broker send, the Redis write, the store update
\* fails.
RunEnvs ==
    { ReliableTriggerEnv,
      [ReliableTriggerEnv EXCEPT !.get = "error"],
      [ReliableTriggerEnv EXCEPT !.faults = <<[send |-> "kafka_error", redis |-> "ok"], NoFault>>],
      [ReliableTriggerEnv EXCEPT !.setex = "error"],
      [ReliableTriggerEnv EXCEPT !.db = "error"] }

\* A run of _trigger_scan has come to its return (or to its except): the
\* task goes on with its next run time, or ends and the executor counts one
\* instance of the job id less.
Finish(active, r) ==
    IF r.todo > 1
    THEN (active \ {r}) \cup {[r EXCEPT !.todo = @ - 1, !.pc = "is_allowed"]}
    ELSE active \ {r}

Ended(r, outcome) ==
    [config_id |-> r.config.id, at |-> now, outcome |-> outcome,
     schedule |-> r.config.schedule]

\* `await self.rate_limiter.is_allowed(config.url)` returns to the run.
RunIsAllowed(r, e) ==
    /\ r \in runs.active /\ r.pc = "is_allowed"
    /\ IF e.get # "ok"
       THEN /\ runs' = [runs EXCEPT !.active = Finish(@, r)]
            /\ lastTrigger' = Ended(r, "error")
            /\ UNCHANGED metrics
       ELSE IF ~IsAllowed(rateMarks, r.config.url, now)
       THEN /\ runs' = [runs EXCEPT !.active = Finish(@, r)]
            /\ metrics' = CountRateLimited(metrics)
            /\ lastTrigger' = Ended(r, "rate_limited")
       ELSE /\ runs' = [runs EXCEPT !.active = (@ \ {r}) \cup {[r EXCEPT !.pc = "produce_message"]}]
            /\ UNCHANGED <<metrics, lastTrigger>>
    /\ UNCHANGED <<now, busVars, alertVars, rateVars, configsDb, activeConfigs, jobs,
                   lastAdmin, gatewayVars, life, detectVars>>

\* `await self.kafka.produce_message(...)` returns to the run.
RunProduce(r, e) ==
    /\ r \in runs.active /\ r.pc = "produce_message"
    /\ Room("scan.scheduled")
    /\ LET sent == ProduceMessage(Client, "scan.scheduled", ScanScheduledMessage(r.config),
                                  ScanKey(r.config), e.faults)
       IN  /\ topics' = sent.kc.topics
           /\ IF sent.ret
              THEN /\ runs' = [runs EXCEPT !.active = (@ \ {r}) \cup {[r EXCEPT !.pc = "record_scan"]}]
                   /\ UNCHANGED lastTrigger
              ELSE /\ runs' = [runs EXCEPT !.active = Finish(@, r)]
                   /\ lastTrigger' = Ended(r, "publish_failed")
    /\ UNCHANGED <<now, producer, lastProduce, offsets, lastConsume, consumers, handled,
                   alertVars, rateVars, configsDb, activeConfigs, jobs, metrics, lastAdmin,
                   gatewayVars, life, detectVars>>

\* `await self.rate_limiter.record_scan(config.url)` returns to the run, which
\* counts the scan and calls _update_scan_scheduled.
RunRecordScan(r, e) ==
    /\ r \in runs.active /\ r.pc = "record_scan"
    /\ IF e.setex # "ok"
       THEN /\ runs' = [runs EXCEPT !.active = Finish(@, r)]
            /\ lastTrigger' = Ended(r, "error")
            /\ UNCHANGED <<rateMarks, metrics>>
       ELSE /\ rateMarks' = RecordScan(rateMarks, r.config.url, now)
            /\ metrics' = [metrics EXCEPT !.scans_scheduled = @ + 1]
            /\ runs' = [runs EXCEPT !.active = (@ \ {r}) \cup {[r EXCEPT !.pc = "update"]}]
            /\ UNCHANGED lastTrigger
    /\ UNCHANGED <<now, busVars, alertVars, lastRecord, lastAllowed, configsDb, activeConfigs,
                   jobs, lastAdmin, gatewayVars, life, detectVars>>

\* The UPDATE of _update_scan_scheduled returns (or raises, which is logged
\* there) and the run returns.
RunUpdate(r, e) ==
    /\ r \in runs.active /\ r.pc = "update"
    /\ configsDb' = UpdateScanScheduled(configsDb, activeConfigs, r.config.id, now, e)
    /\ runs' = [runs EXCEPT !.active = Finish(@, r)]
    /\ lastTrigger' = Ended(r, "published")
    /\ UNCHANGED <<now, busVars, alertVars, rateVars, activeConfigs, jobs, metrics, lastAdmin,
                   gatewayVars, life, detectVars>>

\* Two configs on host a, scanned every minute and every second minute.
OverlapRows ==
    [c \in SchedConfigs |->
        [url |-> IF c = "c1" THEN Url(<<"a">>, <<>>, "/") ELSE Url(<<"A">>, <<>>, "/shop"),
         enabled |-> TRUE, next_scan_at |-> -1,
         scan_config |-> [priority |-> "normal"],
         schedule |-> [type |-> "interval", minutes |-> IF c = "c1" THEN 1 ELSE 2]]]

\* The scheduler, its executor and the periodic reload; the clock goes on
\* while runs are in progress and while the scheduler is late.
NextRuns ==
    \/ \E c \in SchedConfigs : ProcessJob(c)
    \/ \E r \in runs.active, e \in RunEnvs : RunIsAllowed(r, e)
    \/ \E r \in runs.active, e \in RunEnvs : RunProduce(r, e)
    \/ \E r \in runs.active, e \in RunEnvs : RunRecordScan(r, e)
    \/ \E r \in runs.active, e \in RunEnvs : RunUpdate(r, e)
    \/ ReloadConfigs
    \/ Tick(1, MaxRunMinutes)

InitClock == now = 0

\* The alert engine before its first message.  (The monitoring_alerts
\* columns notification_sent and notification_attempts start at false and 0.)
InitAlert ==
    /\ throttleMarks = {}
    /\ alertsDb = <<>>
    /\ notifLog = <<>>
    /\ lastChange = [config_id |-> "", at |-> 0, matched |-> {}, raised |-> {},
                     before |-> 0]
    /\ lastResults = [ran |-> FALSE, alert_id |-> 0, channels |-> <<>>,
                      outcomes |-> <<>>, results |-> <<>>, before |-> 0]

\* The Kafka client of a component after start().
InitBusStarted ==
    /\ producer = TRUE
    /\ topics = [t \in TopicNames |-> <<>>]
    /\ lastProduce = NoCall
    /\ offsets = [t \in BusTopics |-> 0]
    /\ lastConsume = [topic |-> "", raised |-> FALSE, dead_lettered |-> FALSE, dlq_calls |-> 0]
    /\ consumers = [t \in BusTopics |-> "none"]
    /\ handled = [t \in BusTopics |-> <<>>]

\* The Kafka client on its own, from its construction.
InitBusOnly ==
    InitClock /\ InitLife /\ InitRuns /\ InitBus /\ InitAlert /\ InitRate /\ InitSched /\ InitGateway /\ InitDetect

SpecBus == InitBusOnly /\ [][NextBus]_vars

\* The alert engine after start().
InitAlertOnly ==
    /\ InitClock /\ InitLife /\ InitRuns /\ InitBusStarted /\ InitAlert /\ InitRate /\ InitSched /\ InitGateway
    /\ InitDetect

SpecAlert == InitAlertOnly /\ [][NextAlert]_vars

\* The alert engine whose store and Redis may fail on any call made for a
\* rule, with the broker answering.
StoreEnvs == {e \in RuleEnvs : e.exists = "ok" /\ e.faults = NoFaults}

NextStore ==
    \/ \E m \in ChangeMessages, e1 \in StoreEnvs, e2 \in StoreEnvs :
          HandleChangeDetected(m, "ok", <<e1, e2>>)
    \/ Tick(1, MaxTime)

SpecStore == InitAlertOnly /\ [][NextStore]_vars

\* The alert engine on changes of the config with the broken rules; the
\* throttle write of a rule may fail, the store and the broker answer.
ThrottleEnvs == {e \in StoreEnvs : e.store = "ok"}

RuleMessages ==
    {[config_id |-> c, change_type |-> d.type, change_details |-> d] :
        c \in RuleConfigs, d \in ChangeDetails}

NextRules ==
    \/ \E m \in RuleMessages :
       \E e1 \in ThrottleEnvs, e2 \in ThrottleEnvs, e3 \in ThrottleEnvs, e4 \in ThrottleEnvs :
          HandleChangeDetected(m, "ok", <<e1, e2, e3, e4>>)
    \/ Tick(1, MaxTime)

SpecRules == InitAlertOnly /\ [][NextRules]_vars

\* The rate limiter on its own.
InitRateOnly ==
    /\ InitClock /\ InitLife /\ InitRuns /\ InitBusStarted /\ InitAlert /\ InitRate /\ InitSched /\ InitGateway
    /\ InitDetect

SpecRate == InitRateOnly /\ [][NextRate]_vars

\* The pipeline after start() at time 0: the enabled configs are loaded and
\* each has its job.
InitSchedOnly ==
    /\ InitClock /\ InitLife /\ InitRuns /\ InitBusStarted /\ InitAlert /\ InitRate /\ InitGateway /\ InitDetect
    /\ configsDb = ConfigRows
    /\ activeConfigs = [c \in EnabledIds(ConfigRows) |-> MonitoringConfig(c, ConfigRows[c])]
    /\ jobs = ScheduleAll({}, ConfigRows, EnabledIds(ConfigRows), 0)
    /\ metrics = [scans_scheduled |-> 0, scans_rate_limited |-> 0]
    /\ lastTrigger = [config_id |-> "", at |-> 0, outcome |-> "", schedule |-> <<>>]
    /\ lastAdmin = NoAdmin

SpecSched == InitSchedOnly /\ [][NextSched]_vars

SpecAdmin == InitSchedOnly /\ [][NextAdmin]_vars

\* The schedules an administrator gives a config: one of a type the
\* pipeline does not know, a cron expression with a minute that does not
\* exist, and two that can be scheduled.
ScheduleUpdates ==
    { [schedule |-> [type |-> "weekly"]],
      [schedule |-> [type |-> "cron", expression |-> [minute |-> 99, every |-> 1]]],
      [schedule |-> [type |-> "interval"]],
      [schedule |-> [type |-> "cron", expression |-> [minute |-> 0, every |-> 1]]],
      [enabled |-> FALSE],
      [enabled |-> TRUE] }

\* The pipeline while the schedules of its configs are changed and the
\* configs are loaded again.
NextLoad ==
    \/ \E c \in SchedConfigs : Fire(c, ReliableTriggerEnv)
    \/ ReloadConfigs
    \/ \E c \in SchedConfigs, updates \in ScheduleUpdates : UpdateMonitoringConfig(c, updates)
    \/ /\ \A job \in jobs : job.next_run_time > now
       /\ Tick(MinutesPerHour, MaxAdminHours * MinutesPerHour)

SpecLoad == InitSchedOnly /\ [][NextLoad]_vars

\* Configs on three network locations: h1 and h2 name host a (in two letter
\* cases), h3 names host a with a port, h4 names host b.  Each is scanned
\* every few minutes.
HostConfigs == {"h1", "h2", "h3", "h4"}

HostUrl(c) ==
    IF c = "h1" THEN Url(<<"a">>, <<>>, "/")
    ELSE IF c = "h2" THEN Url(<<"A">>, <<>>, "/shop")
    ELSE IF c = "h3" THEN Url(<<"a">>, <<"8", "4", "4", "3">>, "/")
    ELSE Url(<<"b">>, <<>>, "/")

HostRows ==
    [c \in HostConfigs |->
        [url |-> HostUrl(c), enabled |-> TRUE, next_scan_at |-> -1,
         scan_config |-> [priority |-> "normal"],
         schedule |-> [type |-> "interval", minutes |-> IF c = "h1" THEN 3 ELSE 4]]]

\* The minutes the clock runs while these configs are scanned.
MaxHostMinutes == 8

\* The pipeline after start() with the rows of HostRows loaded.
InitHostsOnly ==
    /\ InitClock /\ InitLife /\ InitRuns /\ InitBusStarted /\ InitAlert /\ InitRate /\ InitGateway /\ InitDetect
    /\ configsDb = HostRows
    /\ activeConfigs = [c \in EnabledIds(HostRows) |-> MonitoringConfig(c, HostRows[c])]
    /\ jobs = ScheduleAll({}, HostRows, EnabledIds(HostRows), 0)
    /\ metrics = [scans_scheduled |-> 0, scans_rate_limited |-> 0]
    /\ lastTrigger = [config_id |-> "", at |-> 0, outcome |-> "", schedule |-> <<>>]
    /\ lastAdmin = NoAdmin

\* The scheduler runs the jobs as they come due, minute by minute; the
\* periodic reload schedules them anew.
NextHosts ==
    \/ \E c \in HostConfigs : Fire(c, ReliableTriggerEnv)
    \/ ReloadConfigs
    \/ /\ \A job \in jobs : job.next_run_time > now
       /\ Tick(1, MaxHostMinutes)

SpecHosts == InitHostsOnly /\ [][NextHosts]_vars

\* The pipeline after start() with the rows of OverlapRows loaded.
InitRunsOnly ==
    /\ InitClock /\ InitLife /\ InitRuns /\ InitBusStarted /\ InitAlert /\ InitRate /\ InitGateway /\ InitDetect
    /\ configsDb = OverlapRows
    /\ activeConfigs = [c \in EnabledIds(OverlapRows) |-> MonitoringConfig(c, OverlapRows[c])]
    /\ jobs = ScheduleAll({}, OverlapRows, EnabledIds(OverlapRows), 0)
    /\ metrics = [scans_scheduled |-> 0, scans_rate_limited |-> 0]
    /\ lastTrigger = [config_id |-> "", at |-> 0, outcome |-> "", schedule |-> <<>>]
    /\ lastAdmin = NoAdmin

SpecRuns == InitRunsOnly /\ [][NextRuns]_vars

\* The gateway after start(), before any client connects.
InitGatewayOnly ==
    /\ InitClock /\ InitLife /\ InitRuns /\ InitBusStarted /\ InitAlert /\ InitRate /\ InitSched /\ InitGateway
    /\ InitDetect

SpecGateway == InitGatewayOnly /\ [][NextGateway]_vars

SpecManager == InitGatewayOnly /\ [][NextManager]_vars

\* Any one of the four components, newly constructed.
InitLifeOnly ==
    /\ InitClock /\ InitRuns /\ InitBus /\ InitAlert /\ InitRate /\ InitSched /\ InitGateway /\ InitDetect
    /\ life \in {NewComponent(kind) : kind \in Components}

SpecLife == InitLifeOnly /\ [][NextLife]_vars

SpecHealth == InitGatewayOnly /\ [][NextHealth]_vars

\* detect_changes on its own: every config row may hold any of the
\* scan_config documents.
InitCompareOnly ==
    /\ InitClock /\ InitLife /\ InitRuns /\ InitBusStarted /\ InitAlert /\ InitRate /\ InitGateway /\ InitDetect
    /\ configsDb \in {[c \in {"c1"} |-> [ConfigRows[c] EXCEPT !.scan_config = sc]] :
                         sc \in ScanConfigChoices}
    /\ activeConfigs = <<>>
    /\ jobs = {}
    /\ metrics = [scans_scheduled |-> 0, scans_rate_limited |-> 0]
    /\ lastTrigger = [config_id |-> "", at |-> 0, outcome |-> "", schedule |-> <<>>]
    /\ lastAdmin = NoAdmin

SpecCompare == InitCompareOnly /\ [][NextCompare]_vars

\* detect_changes while an administrator updates the config's scan_config.
InitThresholdsOnly ==
    /\ InitClock /\ InitLife /\ InitRuns /\ InitBusStarted /\ InitAlert /\ InitRate /\ InitSched /\ InitGateway
    /\ InitDetect

SpecThresholds == InitThresholdsOnly /\ [][NextThresholds]_vars

\* The change detector after start(), with the scan workers.
InitDetectOnly ==
    /\ InitClock /\ InitLife /\ InitRuns /\ InitBusStarted /\ InitAlert /\ InitRate /\ InitSched /\ InitGateway
    /\ InitDetect

SpecDetect == InitDetectOnly /\ [][NextDetect]_vars

\* The three producers of keyed events: the scheduler, the change detector
\* (with the scan workers) and the alert engine.  They are processes of
\* their own that write to different topics; a behaviour follows one of
\* them from the common start.
ReliableHandlerEnv ==
    [previous |-> "ok", thresholds |-> ReliableDetectEnv, insert_fails_at |-> 0,
     faults |-> NoFaults]

SchedulerIdle == now = 0 /\ topics["scan.scheduled"] = <<>>

DetectorIdle == topics["scan.completed"] = <<>>

EngineIdle == lastChange.config_id = ""

NextProducers ==
    \/ /\ DetectorIdle /\ EngineIdle
       /\ \E c \in SchedConfigs : Fire(c, ReliableTriggerEnv)
    \/ /\ DetectorIdle /\ EngineIdle
       /\ SchedTick
    \/ /\ SchedulerIdle /\ EngineIdle
       /\ \E c \in DetectConfigs, result_summary \in ReportedSnapshots :
             WorkerPublish(c, result_summary)
    \/ /\ SchedulerIdle /\ EngineIdle
       /\ \E scan_id \in 1..MaxScans : WorkerStore(scan_id)
    \/ /\ SchedulerIdle /\ EngineIdle
       /\ \E scan_id \in 1..MaxScans : HandleScanCompleted(scan_id, ReliableHandlerEnv)
    \/ /\ SchedulerIdle /\ DetectorIdle
       /\ \E m \in ChangeMessages :
             HandleChangeDetected(m, "ok", <<ReliableRuleEnv, ReliableRuleEnv>>)

InitProducersOnly ==
    /\ InitClock /\ InitLife /\ InitRuns /\ InitBusStarted /\ InitAlert /\ InitRate /\ InitGateway /\ InitDetect
    /\ configsDb = ConfigRows
    /\ activeConfigs = [c \in EnabledIds(ConfigRows) |-> MonitoringConfig(c, ConfigRows[c])]
    /\ jobs = ScheduleAll({}, ConfigRows, EnabledIds(ConfigRows), 0)
    /\ metrics = [scans_scheduled |-> 0, scans_rate_limited |-> 0]
    /\ lastTrigger = [config_id |-> "", at |-> 0, outcome |-> "", schedule |-> <<>>]
    /\ lastAdmin = NoAdmin

SpecProducers == InitProducersOnly /\ [][NextProducers]_vars

KeyedTopics == {"scan.scheduled", "change.detected", "alert.triggered"}

\* C11: every record on scan.scheduled, change.detected and alert.triggered
\* has a non-empty key, the key is the URL or the config id of the target
\* the event is about, and two events about one target on one topic have
\* the same key: they lie in one partition, where the broker keeps and
\* every consumer group reads records in the order of their publication.
C11_EventsKeyedByTarget ==
    \A t \in KeyedTopics : \A i \in DOMAIN topics[t] :
        /\ topics[t][i].key.set
        /\ IF t = "scan.scheduled"
           THEN topics[t][i].key.value = topics[t][i].data.url
           ELSE topics[t][i].key.value = topics[t][i].data.config_id
        /\ \A j \in DOMAIN topics[t] :
              topics[t][j].data.config_id = topics[t][i].data.config_id
              => topics[t][j].key = topics[t][i].key

\* Two scan.scheduled events about one target have been published.
C11_Witness ==
    \E i, j \in DOMAIN topics["scan.scheduled"] :
        /\ i < j
        /\ topics["scan.scheduled"][i].data.config_id =
              topics["scan.scheduled"][j].data.config_id

\* C5: for one pair of scans of a config, no change is emitted (persisted
\* or published as change.detected) more than once, however often the
\* scan.completed event of the newer scan is delivered.
C5_ChangeEmittedAtMostOncePerPair ==
    \A i, j \in DOMAIN emissions :
        (/\ i # j
         /\ emissions[i].config_id = emissions[j].config_id
         /\ emissions[i].old_scan_id = emissions[j].old_scan_id
         /\ emissions[i].new_scan_id = emissions[j].new_scan_id
         /\ emissions[i].change = emissions[j].change)
        => /\ ~(emissions[i].persisted /\ emissions[j].persisted)
           /\ ~(emissions[i].published /\ emissions[j].published)

\* C6: two successive calls of detect_changes on the same old snapshot, new
\* snapshot and config id, with the same thresholds configured for the
\* config at both calls, return the same changes and the same confidence.
C6_DetectionIsDeterministic ==
    [][(/\ lastDetect.ran /\ lastDetect'.ran
        /\ lastDetect'.flip # lastDetect.flip
        /\ lastDetect'.old = lastDetect.old
        /\ lastDetect'.new = lastDetect.new
        /\ lastDetect'.config_id = lastDetect.config_id
        /\ lastDetect'.configured = lastDetect.configured)
       => /\ Range(lastDetect'.changes) = Range(lastDetect.changes)
          /\ lastDetect'.confidence = lastDetect.confidence]_vars

\* The version_changed changes a result reports, by technology name.
ReportedVersionChanges(changes) ==
    {changes[i].technology_name : i \in
        {k \in DOMAIN changes : /\ changes[k].type = "technology_change"
                                /\ changes[k].change_type = "version_changed"}}

\* ordinal of an importance: low is 0, critical is 3
Ordinal(impact) == IndexOf(ImpactLevels, impact)

\* C7: for a technology in both snapshots with different non-empty versions
\* (that parse), version_changed is reported iff the major part differs, or
\* the minor part differs and the importance is above low; a patch-only
\* difference of a technology in the noisy set is never reported; and for a
\* major difference the impact reported is the base importance raised one
\* level, capped at critical.
C7_VersionChangeReportedIffSignificant ==
    lastDetect.ran =>
        LET old_detected == Get(Get(lastDetect.old, "technologies", <<>>), "detected", <<>>)
            new_detected == Get(Get(lastDetect.new, "technologies", <<>>), "detected", <<>>)
        IN  \A name \in TechNames(old_detected) \cap TechNames(new_detected) :
               LET old_version == FirstNamed(old_detected, name).version
                   new_version == FirstNamed(new_detected, name).version
                   reported == name \in ReportedVersionChanges(lastDetect.changes)
                   major == old_version[1].value # new_version[1].value
                   minor == old_version[2].value # new_version[2].value
               IN  (/\ old_version # <<>> /\ new_version # <<>>
                    /\ old_version # new_version
                    /\ Parses(old_version) /\ Parses(new_version))
                   => /\ reported <=> (major \/ (minor /\ AssessTechImpact(name) # "low"))
                      /\ (~major /\ ~minor
                             /\ (\E noisy \in NoisyTechnologies :
                                    IsSubstring(noisy, Lower(name))))
                         => ~reported
                      /\ (major /\ reported)
                         => \E i \in DOMAIN lastDetect.changes :
                               /\ lastDetect.changes[i].type = "technology_change"
                               /\ lastDetect.changes[i].technology_name = name
                               /\ Ordinal(lastDetect.changes[i].impact_assessment) =
                                     IF Ordinal(AssessTechImpact(name)) = 3 THEN 3
                                     ELSE Ordinal(AssessTechImpact(name)) + 1

\* C8: whatever thresholds the config sets, thresholds under 5 per cent
\* included, no performance metric change returned by detect_changes has a
\* change_percent of magnitude below 5.
C8_NoPerformanceChangeBelowFivePercent ==
    lastDetect.ran =>
        \A i \in DOMAIN lastDetect.changes :
            (/\ lastDetect.changes[i].type = "performance_change"
             /\ lastDetect.changes[i].change_type = "metric")
            => ~AbsBelow(lastDetect.changes[i].change_percent, 5, 1)

\* A call where the config's threshold for a metric is under 5 per cent, the
\* metric moved by more than the threshold and by less than 5 per cent, and
\* the result carries no performance change.
C8_Witness ==
    /\ lastDetect.ran
    /\ "load_time" \in DOMAIN lastDetect.configured
    /\ lastDetect.configured["load_time"] < 5
    /\ LET detected == DetectPerformanceChanges(Get(lastDetect.old, "performance", <<>>),
                                                Get(lastDetect.new, "performance", <<>>),
                                                lastDetect.configured)
       IN  \E i \in DOMAIN detected :
              /\ detected[i].change_type = "metric"
              /\ detected[i].metric_name = "load_time"
              /\ AbsBelow(detected[i].change_percent, 5, 1)
    /\ \A i \in DOMAIN lastDetect.changes : lastDetect.changes[i].type # "performance_change"

\* C2: after record_scan for a URL, is_allowed for a URL of the same host
\* returns false until the minimum interval has passed since that record,
\* and true once it has passed.
C2_SameHostBlockedForInterval ==
    (/\ lastAllowed.called
     /\ lastAllowed.record.called
     /\ Hostname(lastAllowed.url) = Hostname(lastAllowed.record.url))
        => (lastAllowed.ret <=> lastAllowed.at - lastAllowed.record.at >= MinIntervalMinutes)

\* C9: after a trigger at time t that published a scan for a config, the
\* next_scan_at stored for the config is the first occurrence of its cron
\* schedule strictly after t, or t + N minutes for an interval of N minutes.
C9_NextScanAtIsNextOccurrence ==
    lastTrigger.outcome = "published" =>
        LET schedule == lastTrigger.schedule
            t == lastTrigger.at
        IN  configsDb[lastTrigger.config_id].next_scan_at
              = IF schedule.type = "cron"
                THEN CronNext(schedule.expression,
                              UtcOffset(Get(schedule, "timezone", "UTC")), t)
                ELSE t + Get(schedule, "minutes", DefaultIntervalMinutes)

\* C1: once an alert has been created for a config and one of its rules, no
\* further alert is created for that config and rule within the rule's
\* throttle_minutes, however many matching change.detected events arrive;
\* and a matching change that arrives when no alert of the config and rule
\* is that recent creates exactly one alert for them.
C1_ThrottleSuppressesRepeats ==
    LET ThrottleOf(c, name) ==
            LET rows == SelectSeq(AlertRulesTable[c], LAMBDA r : Get(r, "name", "") = name)
            IN  Get(rows[1], "throttle_minutes", DefaultThrottleMinutes)
        Same(a, c, name) == a.config_id = c /\ a.rule_name = name
    IN  /\ \A i, j \in DOMAIN alertsDb :
              (i < j /\ Same(alertsDb[j], alertsDb[i].config_id, alertsDb[i].rule_name))
                 => alertsDb[j].triggered_at - alertsDb[i].triggered_at
                       >= ThrottleOf(alertsDb[i].config_id, alertsDb[i].rule_name)
        /\ \A name \in lastChange.matched :
              LET c == lastChange.config_id
                  recent == {i \in 1..lastChange.before :
                                /\ Same(alertsDb[i], c, name)
                                /\ lastChange.at - alertsDb[i].triggered_at < ThrottleOf(c, name)}
                  made == {i \in (lastChange.before + 1)..Len(alertsDb) :
                                Same(alertsDb[i], c, name)}
              IN  recent = {} => Cardinality(made) = 1

\* C3: a registered connection that is subscribed to a config when a
\* change.detected event of that config is consumed is sent the event's
\* message (and has it, if its socket is open at that send), and a
\* connection is never sent the change.detected message of a config it was
\* not subscribed to when the event was consumed.
C3_SubscribersAndOnlySubscribersAreSent ==
    \A n \in DOMAIN broadcasts :
        LET b == broadcasts[n]
        IN  /\ b.attempted \subseteq b.subscribed
            /\ b.todo = {} => b.attempted = b.subscribed
            /\ \A w \in b.attempted \ b.failed :
                  ChangeDetectedFrame(n, b.config_id) \in received[w]
            /\ \A w \in Sockets :
                  ChangeDetectedFrame(n, b.config_id) \in received[w] => w \in b.subscribed

\* A broadcast has ended that reached a subscriber while another registered
\* connection, not subscribed to the event's config, got nothing of it.
C3_Witness ==
    \E n \in DOMAIN broadcasts :
        LET b == broadcasts[n]
        IN  /\ b.todo = {}
            /\ \E w \in b.subscribed : ChangeDetectedFrame(n, b.config_id) \in received[w]
            /\ \E v \in Registered \ b.subscribed :
                  /\ connMeta[v].subscriptions # {}
                  /\ ChangeDetectedFrame(n, b.config_id) \notin received[v]

\* C4: after a dispatch of an alert's notifications, one attempt has been
\* recorded for every configured channel, in order and with that channel's
\* own sent/failed status, and the alert's notification_sent is true exactly
\* when at least one channel's send succeeded.
C4_EveryChannelAttemptRecorded ==
    lastResults.ran =>
        LET recorded == SubSeq(notifLog, lastResults.before + 1, Len(notifLog))
            row == SelectSeq(alertsDb, LAMBDA a : a.id = lastResults.alert_id)[1]
        IN  /\ Len(recorded) = Len(lastResults.channels)
            /\ \A k \in DOMAIN recorded :
                  /\ recorded[k].alert_id = lastResults.alert_id
                  /\ recorded[k].channel_config = lastResults.channels[k]
                  /\ recorded[k].status = lastResults.outcomes[k]
            /\ row.notification_sent
                  = (\E k \in DOMAIN recorded : recorded[k].status = "sent")

\* C10: whenever a publish to a topic other than the dead-letter topic
\* returns false, or a consumer's handler raises on a message, a dead-letter
\* message carrying the original payload, the source topic and the error has
\* been published to the dead-letter topic.
C10_FailedMessageIsDeadLettered ==
    /\ (lastProduce.topic \notin {"", DlqTopic} /\ ~lastProduce.ret) =>
          /\ lastProduce.dead_lettered
          /\ Keyed(DlqMessage(lastProduce.message, lastProduce.topic, "KafkaError"), NoKey)
                \in Range(topics[DlqTopic])
    /\ (lastConsume.topic # "" /\ lastConsume.raised) =>
          /\ lastConsume.dead_lettered
          /\ Keyed(DlqMessage(lastConsume.message, lastConsume.topic, "HandlerError"), NoKey)
                \in Range(topics[DlqTopic])

\* C12: in every reachable scheduler state, whatever loads, reloads, adds,
\* updates and deletes have run, the job store holds at most one scan job
\* for each config id.
C12_AtMostOneJobPerConfig ==
    \A c \in AdminConfigs : Cardinality(JobsOf(jobs, c)) <= 1

\* A config that is scheduled again, by a load after its job has run: its
\* job is there, with the next run time of the later load.
C12_Witness ==
    /\ lastAdmin.op \in {"reload", "add", "update"}
    /\ now > 0
    /\ \E c \in AdminConfigs : \E job \in JobsOf(jobs, c) : job.next_run_time > MinutesPerHour

\* The config ids that have a job in the job store.
ScheduledIds(js) == {c \in AdminConfigs : JobsOf(js, c) # {}}

\* The rows that are enabled and whose schedule gives a trigger.
SchedulableIds(db) ==
    {c \in EnabledIds(db) : TriggerOf(db[c].schedule).kind \in {"cron", "interval"}}

\* C13: once a reload or a config mutation (add, update, delete) has
\* completed, the configs that have a scan job are exactly the rows that are
\* enabled in the store with a valid schedule, and the in-memory active
\* configs are the same set; a row that was disabled or removed has no job.
C13_JobsMatchEnabledConfigs ==
    lastAdmin.op \in {"reload", "add", "update", "delete"} =>
        /\ ScheduledIds(jobs) = SchedulableIds(configsDb)
        /\ DOMAIN activeConfigs = SchedulableIds(configsDb)

TriggerStep(outcome) ==
    /\ lastTrigger' # lastTrigger
    /\ lastTrigger'.outcome = outcome

\* C15: a trigger that the rate limiter blocks adds one to the rate_limited
\* counter and has no other effect: nothing is published, no rate-limit mark
\* is written, no next_scan_at is changed, the scheduled counter stays, and
\* the config's job gets the next run time of its trigger, none earlier.
C15_BlockedTriggerOnlyCounts ==
    [][TriggerStep("rate_limited") =>
          /\ metrics'.scans_rate_limited = metrics.scans_rate_limited + 1
          /\ metrics'.scans_scheduled = metrics.scans_scheduled
          /\ topics' = topics
          /\ rateMarks' = rateMarks
          /\ configsDb' = configsDb
          /\ \A job \in JobsOf(jobs', lastTrigger'.config_id) :
                 \E old \in JobsOf(jobs, lastTrigger'.config_id) :
                     /\ old.next_run_time = now
                     /\ job = [old EXCEPT !.next_run_time = NextFireTime(old.trigger, now)]
                     /\ job.next_run_time > now
          /\ \A c \in AdminConfigs \ {lastTrigger'.config_id} :
                 JobsOf(jobs', c) = JobsOf(jobs, c)]_vars

\* A trigger was blocked because another config of the same domain had been
\* scanned within the interval.
C15_Witness ==
    /\ lastTrigger.outcome = "rate_limited"
    /\ metrics.scans_rate_limited >= 1
    /\ metrics.scans_scheduled >= 1

\* C16: a trigger that the rate limiter allows publishes one scan.scheduled
\* event for its config; when the publish succeeds the rate-limit mark of the
\* target is recorded, the row's next_scan_at becomes the newly computed
\* time and the scheduled counter grows by one; when the publish fails the
\* marks, the rows and the scheduled counter stay as they were.
C16_AllowedTriggerPublishesAndRecords ==
    [][/\ TriggerStep("published") =>
            LET c == lastTrigger'.config_id
                sent == topics'["scan.scheduled"]
            IN  /\ Len(sent) = Len(topics["scan.scheduled"]) + 1
                /\ SubSeq(sent, 1, Len(sent) - 1) = topics["scan.scheduled"]
                /\ Last(sent).data.config_id = c
                /\ \E m \in rateMarks' : /\ m.key = ExtractDomain(Last(sent).data.url)
                                          /\ m.value = now
                /\ c \in DOMAIN configsDb'
                /\ configsDb'[c].next_scan_at =
                       CalculateNextScanTime([schedule |-> lastTrigger'.schedule], now)
                /\ metrics'.scans_scheduled = metrics.scans_scheduled + 1
       /\ TriggerStep("publish_failed") =>
                /\ rateMarks' = rateMarks
                /\ configsDb' = configsDb
                /\ metrics'.scans_scheduled = metrics.scans_scheduled]_vars

\* A step in which _handle_scan_completed ran on the event of scan scan_id.
HandledStep(scan_id) ==
    /\ scan_id \in DOMAIN deliveries
    /\ Len(deliveries') = Len(deliveries)
    /\ deliveries'[scan_id] = deliveries[scan_id] + 1

\* The completed scans of the config of scan scan_id that are earlier than it.
EarlierScans(rows, scan_id) ==
    {i \in DOMAIN rows :
        /\ rows[i].config_id = topics["scan.completed"][scan_id].data.config_id
        /\ rows[i].status = "completed"
        /\ rows[i].scan_timestamp < scan_id}

\* C17: when the scan.completed event of a scan is handled while its config
\* has no earlier completed scan, no change is persisted and no
\* change.detected event is published.
C17_FirstScanIsNotCompared ==
    [][\A scan_id \in 1..MaxScans :
          (HandledStep(scan_id) /\ EarlierScans(scanResults, scan_id) = {}) =>
              /\ changesDb' = changesDb
              /\ topics'["change.detected"] = topics["change.detected"]]_vars

\* C18: the old side of every comparison made for the event of scan S is the
\* newest completed scan of the config other than S: no change is derived
\* from comparing S's stored result with S itself, and none from a scan that
\* is not the latest one before S.
C18_PreviousScanIsLatestOtherScan ==
    [][\A scan_id \in 1..MaxScans :
          (HandledStep(scan_id) /\ lastDetect' # lastDetect) =>
              LET config_id == topics["scan.completed"][scan_id].data.config_id
                  others == {i \in DOMAIN scanResults :
                                /\ scanResults[i].config_id = config_id
                                /\ scanResults[i].status = "completed"
                                /\ scanResults[i].id # scan_id}
              IN  \E i \in others :
                     /\ \A j \in others :
                            scanResults[j].scan_timestamp <= scanResults[i].scan_timestamp
                     /\ lastDetect'.old = scanResults[i].result_summary]_vars

\* C19: every change that passed the noise filter in a detection, whatever
\* its category, has its change.detected event published and its row in the
\* historical table of its category.
C19_EveryChangePublishedAndPersisted ==
    \A k \in DOMAIN emissions :
        /\ emissions[k].published
        /\ emissions[k].persisted
        /\ \E i \in DOMAIN changesDb :
               /\ changesDb[i].config_id = emissions[k].config_id
               /\ changesDb[i].scan_id = emissions[k].new_scan_id
               /\ changesDb[i].change = emissions[k].change

\* The ids of the alerts in the store.
StoredAlertIds(alerts) == {alerts[i].id : i \in DOMAIN alerts}

\* C20: an alert is stored before it is published: every alert.triggered
\* event is that of an alert in the store, a step publishes no more alerts
\* than it stores, and a throttle mark is set only for a config of which the
\* step stored an alert; so when the store refuses the alert, nothing is
\* published and no mark is set.
C20_AlertStoredBeforePublished ==
    [][LET published == topics'["alert.triggered"]
           new_rows == {i \in DOMAIN alertsDb' : i > Len(alertsDb)}
       IN  /\ \A i \in DOMAIN published :
                  published[i].data.alert_id \in StoredAlertIds(alertsDb')
           /\ Len(published) - Len(topics["alert.triggered"]) <= Cardinality(new_rows)
           /\ \A m \in throttleMarks' \ throttleMarks :
                  \E i \in new_rows : alertsDb'[i].config_id = m.config_id]_vars

\* An alert is in the store, published and throttled, and the last change
\* matched a rule for which no alert was created.
C20_Witness ==
    /\ \E i \in DOMAIN topics["alert.triggered"] :
           topics["alert.triggered"][i].data.alert_id \in StoredAlertIds(alertsDb)
    /\ throttleMarks # {}
    /\ Cardinality(lastChange.matched) > Len(alertsDb) - lastChange.before

\* ------------------------------------------------------------------------
\* Lazy pruning of dead connections
\* ------------------------------------------------------------------------
\* The websockets that are in some config's set of the subscription index.
Subscribed(subs) == UNION {subs[c] : c \in DOMAIN subs}

\* C21: when the send loop of a broadcast ends, every websocket whose send
\* raised ConnectionClosed has left the user index and the set of every
\* config in the subscription index, and every other websocket the
\* broadcast was addressed to has been sent the message.
C21_FailedSendPrunesAndOthersAreReached ==
    [][\A n \in DOMAIN broadcasts :
          (broadcasts[n].todo # {} /\ broadcasts'[n].todo = {}) =>
             LET b == broadcasts'[n]
             IN  /\ \A w \in b.failed :
                       /\ w \notin Registered'
                       /\ w \notin Subscribed(subscriptions')
                 /\ \A w \in b.attempted \ b.failed :
                       ChangeDetectedFrame(n, b.config_id) \in received'[w]]_vars

\* A broadcast has ended in which the send to a websocket subscribed to both
\* configs raised while another subscriber was sent the message.
C21_Witness ==
    \E n \in DOMAIN broadcasts :
        LET b == broadcasts[n]
        IN  /\ b.todo = {}
            /\ \E w \in b.failed : connMeta[w].subscriptions = GatewayConfigs
            /\ \E v \in b.attempted \ b.failed :
                  ChangeDetectedFrame(n, b.config_id) \in received[v]

\* ------------------------------------------------------------------------
\* Authentication before registration
\* ------------------------------------------------------------------------
\* The websocket's first frame carried a user id, an organization id and a
\* token.
PresentedCredentials(w) ==
    /\ Get(presented[w], "user_id", "") # ""
    /\ Get(presented[w], "organization_id", "") # ""
    /\ Get(presented[w], "token", "") # ""

\* The subscribe messages of the websocket that the gateway has answered
\* with success.
Honored(w) == {f \in received[w] : f.type = "subscription_response" /\ f.success}

C23_HealthReachesEveryOpenConnection ==
    \A n \in DOMAIN healthRuns :
        healthRuns[n].phase \in {"done", "raised"} =>
            \A w \in healthRuns[n].open :
                wsLink[w] = "up" => SystemHealthFrame(n) \in received[w]

\* ------------------------------------------------------------------------
\* Poison messages
\* ------------------------------------------------------------------------
\* C24: a turn of the consumer loop in which the handler raises leaves the
\* consumer task of that topic in its loop, positioned on the message that
\* follows; and the messages handed to the handler so far are the messages
\* of the topic up to the consumer's position, in order and without a gap,
\* however many of them made the handler raise.
C24_HandlerErrorDoesNotStopConsumer ==
    [][\A t \in BusTopics :
          /\ (handled'[t] # handled[t] /\ Last(handled'[t]).raised) =>
                /\ consumers'[t] = "running"
                /\ offsets'[t] = offsets[t] + 1
          /\ Len(handled'[t]) = offsets'[t]
          /\ \A k \in DOMAIN handled'[t] : handled'[t][k].offset = k]_vars

\* The handler raised on the first message of a topic and has since been
\* handed the second one, which it handled; the task is still in its loop.
C24_Witness ==
    \E t \in BusTopics :
        /\ Len(handled[t]) = 2
        /\ handled[t][1].raised /\ ~handled[t][2].raised
        /\ consumers[t] = "running"

\* ------------------------------------------------------------------------
\* Rules with malformed conditions
\* ------------------------------------------------------------------------
\* The throttle_minutes stored with the rule of that name.
RuleThrottle(config_id, name) ==
    LET rows == SelectSeq(AlertRulesTable[config_id], LAMBDA r : Get(r, "name", "") = name)
    IN  Get(rows[1], "throttle_minutes", DefaultThrottleMinutes)

\* C25: after the engine has handled a change for a config, no alert row
\* carries the name of a rule whose evaluation raised on that change, and
\* every rule of the config that matches the change has an alert row: the
\* one made on this change or, when the rule was throttled, an earlier one.
C25_MalformedRuleSkippedOthersEvaluated ==
    lastChange.config_id \in RuleConfigs =>
        /\ \A i \in (lastChange.before + 1)..Len(alertsDb) :
              alertsDb[i].rule_name \notin lastChange.raised
        /\ \A name \in lastChange.matched :
              \E i \in DOMAIN alertsDb :
                  /\ alertsDb[i].config_id = lastChange.config_id
                  /\ alertsDb[i].rule_name = name
                  /\ \/ i > lastChange.before
                     \/ lastChange.at - alertsDb[i].triggered_at
                           < RuleThrottle(lastChange.config_id, name)

\* The evaluation of a rule raised on the change handled last, and a rule
\* that comes after it in the config's list made its alert on that change.
C25_Witness ==
    /\ lastChange.config_id \in RuleConfigs
    /\ lastChange.raised # {}
    /\ \E i \in DOMAIN alertsDb :
          /\ i > lastChange.before
          /\ alertsDb[i].rule_name \in lastChange.matched
          /\ alertsDb[i].triggered_at = lastChange.at

\* ------------------------------------------------------------------------
\* Schedules that cannot be scheduled
\* ------------------------------------------------------------------------
\* The schedule is of a type the pipeline knows and, for a cron schedule,
\* its expression can be parsed.
GoodSchedule(schedule) ==
    \/ schedule.type = "interval"
    \/ schedule.type = "cron" /\ ValidCron(schedule.expression)

\* C26: after every load, an enabled config whose schedule is of an unknown
\* type or cannot be parsed has no scan job, and every enabled config with a
\* good schedule has its scan job, built from the schedule the row holds.
C26_BadScheduleSkippedOthersScheduled ==
    \A c \in EnabledIds(configsDb) :
        IF GoodSchedule(configsDb[c].schedule)
        THEN \E job \in JobsOf(jobs, c) : job.config.schedule = configsDb[c].schedule
        ELSE JobsOf(jobs, c) = {}

\* A load has run in which one enabled config has a cron expression that
\* cannot be parsed and so no job, while the other, whose schedule was
\* changed as well, has the job of its new schedule.
C26_Witness ==
    /\ lastAdmin.op = "update"
    /\ \E c, d \in EnabledIds(configsDb) :
          /\ configsDb[c].schedule.type = "cron"
          /\ ~ValidCron(configsDb[c].schedule.expression)
          /\ JobsOf(jobs, c) = {}
          /\ configsDb[d].schedule # ConfigRows[d].schedule
          /\ \E job \in JobsOf(jobs, d) : job.config.schedule = configsDb[d].schedule

\* ------------------------------------------------------------------------
\* Startup failures and shutdown
\* ------------------------------------------------------------------------
\* C27: when a step of start() has raised, running is false and has never
\* been true, and by the time the error has reached the caller of start()
\* nothing that start() had opened is still open.
C27_FailedStartReleasesAndRaises ==
    /\ life.cause = "start" => ~life.running /\ ~life.was_running
    /\ life.phase = "failed" => life.raised /\ life.open = {}
    /\ life.raised => life.phase = "failed"

\* The first load of the pipeline's configs failed on the store after the
\* pool, the cache, the bus client, the scheduler and both consumers were
\* up; stop() has released them and start() has raised.
C27_Witness ==
    /\ life.kind = "pipeline"
    /\ life.phase = "failed"
    /\ life.failed_step = Res("load", 0)
    /\ {Res("db_pool", 0), Res("redis", 0), Res("producer", 0), Res("consumer", 2)}
          \subseteq life.attrs
    /\ life.raised

\* C28: on shutdown of a running component, stop() releases a connection
\* that consumer callbacks work with (the producer, the store pool, the cache
\* client) only when no callback is in flight, and once stop() has returned
\* nothing the component had opened is still open.
C28_DrainedBeforeRelease ==
    /\ life.cause = "stop" => life.released_under \cap UsedByHandlers = {}
    /\ life.phase = "stopped" => life.open = {}

\* The second half of C28 alone: when stop() of a running component has
\* returned, the bus, store and cache connections are all released.
C28_AllReleasedWhenStopReturns ==
    life.phase = "stopped" => life.open = {}

\* The time of the last scan recorded for config c: _trigger_scan stores
\* next_scan_at = that time + the interval right after record_scan.
LastRecorded(c) == configsDb[c].next_scan_at - configsDb[c].schedule.minutes

\* Some config other than c, on the same network host as c, has had a scan
\* recorded less than the minimum interval ago.
OtherOnHostRecorded(c) ==
    \E d \in DOMAIN configsDb \ {c} :
        /\ Hostname(configsDb[d].url) = Hostname(configsDb[c].url)
        /\ configsDb[d].next_scan_at # -1
        /\ now - LastRecorded(d) < MinIntervalMinutes

\* C29: configs whose target URLs have the same network host share one
\* rate-limit mark: a trigger for a config is rate-limited when a scan of
\* another config on its host was recorded within the minimum interval, and
\* a trigger that is rate-limited has such a recorded scan on its own host
\* (its own or another config's), so a config on a different host is not
\* affected.
C29_SameHostSharesOneMark ==
    [][\A c \in HostConfigs :
          (lastTrigger' # lastTrigger /\ lastTrigger'.config_id = c) =>
              /\ OtherOnHostRecorded(c) => lastTrigger'.outcome = "rate_limited"
              /\ lastTrigger'.outcome = "rate_limited" =>
                     \E d \in DOMAIN configsDb :
                         /\ Hostname(configsDb[d].url) = Hostname(configsDb[c].url)
                         /\ configsDb[d].next_scan_at # -1
                         /\ now - LastRecorded(d) < MinIntervalMinutes]_vars

\* The part of C29 that the code keeps: the same, for configs whose URLs have
\* the same netloc up to letter case.
C29_SameNetlocSharesOneMark ==
    [][\A c \in HostConfigs :
          (lastTrigger' # lastTrigger /\ lastTrigger'.config_id = c) =>
              /\ (\E d \in DOMAIN configsDb \ {c} :
                     /\ ExtractDomain(configsDb[d].url) = ExtractDomain(configsDb[c].url)
                     /\ configsDb[d].next_scan_at # -1
                     /\ now - LastRecorded(d) < MinIntervalMinutes)
                   => lastTrigger'.outcome = "rate_limited"
              /\ lastTrigger'.outcome = "rate_limited" =>
                     \E d \in DOMAIN configsDb :
                         /\ ExtractDomain(configsDb[d].url) = ExtractDomain(configsDb[c].url)
                         /\ configsDb[d].next_scan_at # -1
                         /\ now - LastRecorded(d) < MinIntervalMinutes]_vars

\* ------------------------------------------------------------------------
\* The lifetime of a live subscription
\* ------------------------------------------------------------------------
\* The step is the websocket's unsubscribe from the config.
UnsubscribeStep(w, config_id) ==
    /\ wsState[w] = "registered" /\ wsState'[w] = "registered"
    /\ config_id \in connMeta[w].subscriptions
    /\ w \in DOMAIN connMeta' /\ config_id \notin connMeta'[w].subscriptions

\* The step is the end of the websocket's connection handler.
DisconnectStep(w) == wsState[w] = "registered" /\ wsState'[w] = "closed"

\* The step sends the websocket a change_detected message of the config.
SentEventStep(w, n, config_id) ==
    /\ n \in DOMAIN broadcasts /\ broadcasts[n].config_id = config_id
    /\ ChangeDetectedFrame(n, config_id) \notin received[w]
    /\ ChangeDetectedFrame(n, config_id) \in received'[w]

\* A websocket is in a config's set only while it is registered and its own
\* subscriptions list the config; unsubscribe takes it out of the config's
\* set and the end of its handler takes it out of every set.
SubscriptionIndexLifetime ==
    \A w \in Sockets, c \in GatewayConfigs :
        /\ w \in BroadcastTargets(subscriptions, c) =>
               /\ wsState[w] = "registered"
               /\ c \in connMeta[w].subscriptions
               /\ [type |-> "subscription_response", config_id |-> c, success |-> TRUE]
                      \in received[w]
        /\ UnsubscribeStep(w, c) => w \notin BroadcastTargets(subscriptions', c)
        /\ DisconnectStep(w) => w \notin Subscribed(subscriptions')

\* C30: a websocket is in a config's set only between its subscribe for the
\* config and its unsubscribe or the end of its connection, and it is sent a
\* change_detected message of config C only while its subscription to C is
\* live: none after its unsubscribe from C, none after its disconnect.
C30_NoEventAfterUnsubscribe ==
    [][/\ SubscriptionIndexLifetime
       /\ \A w \in Sockets, c \in GatewayConfigs, n \in 1..MaxEvents :
             SentEventStep(w, n, c) =>
                 /\ wsState[w] = "registered"
                 /\ c \in connMeta[w].subscriptions]_vars

\* What the gateway keeps of C30: the index part, and a websocket is sent a
\* change_detected message of config C only if its subscription to C was
\* live when the gateway took the event from the bus.
C30_NoEventTakenAfterUnsubscribe ==
    [][/\ SubscriptionIndexLifetime
       /\ \A w \in Sockets, c \in GatewayConfigs, n \in 1..MaxEvents :
             SentEventStep(w, n, c) => w \in broadcasts[n].subscribed]_vars

\* ------------------------------------------------------------------------
\* One run of a config's trigger at a time
\* ------------------------------------------------------------------------
\* C31: at most one run of a config's _trigger_scan is in progress at any
\* time; the executor refuses a job that comes due while the run of its id
\* has not finished, also when the job was replaced by a reload in the
\* meantime; and a submission starts one run, however many fire times had
\* come due.
C31_OneRunPerConfig ==
    /\ \A r1, r2 \in runs.active : r1.config.id = r2.config.id => r1 = r2
    /\ \A r \in runs.active : r.todo = 1
    /\ runs.last.started <= 1
    /\ runs.last.skipped => runs.last.started = 0

\* A job that had two fire times due was refused because the run of its id,
\* begun before a reload replaced the job, was still in progress.
C31_Witness ==
    /\ runs.last.skipped
    /\ runs.last.due >= 2
    /\ runs.last.during.op = "reload"
    /\ \E r \in Instances(runs.active, runs.last.job_id) : r.admin.op = ""

\* ------------------------------------------------------------------------
\* Triggered always leads back to Scheduled
\* ------------------------------------------------------------------------
\* The step ends a run of _trigger_scan of config c, however it ended.
RunEndStep(c) == lastTrigger' # lastTrigger /\ lastTrigger'.config_id = c

\* After every run of a config's trigger the config still has its job.
JobRemainsAfterRun ==
    \A c \in SchedConfigs : RunEndStep(c) => JobsOf(jobs', c) # {}

\* An occurrence of a config's schedule that lies ahead stays the job's next
\* run time for as long as the config's row is not changed.
OccurrenceKept ==
    \A c \in SchedConfigs : \A job \in JobsOf(jobs, c) :
        (/\ job.next_run_time > now
         /\ c \in DOMAIN configsDb' /\ c \in DOMAIN configsDb
         /\ configsDb'[c].enabled /\ configsDb'[c].schedule = configsDb[c].schedule)
            => \E next \in JobsOf(jobs', c) : next.next_run_time = job.next_run_time

\* C32: after every run of a config's trigger, rate-limited, published,
\* failed in the publish or failed in the store, the config's job is still
\* scheduled, and a config that stays enabled with its schedule is triggered
\* at each later occurrence of the schedule: an occurrence that lies ahead is
\* not given up.
C32_TriggeredAgainAtEachOccurrence ==
    [][JobRemainsAfterRun /\ OccurrenceKept]_vars

\* The part of C32 the pipeline keeps: whatever the outcome, the run leaves
\* the config's job in the job store.
C32_JobRemainsAfterEveryTrigger ==
    [][JobRemainsAfterRun]_vars

\* ------------------------------------------------------------------------
\* Concurrent triggers and the rate limit
\* ------------------------------------------------------------------------
\* The run has passed the rate-limit check and not yet returned.
PassedCheck(r) == r.pc # "is_allowed"

\* The scan.scheduled events published for a network host.
PublishedFor(host) ==
    {i \in DOMAIN topics["scan.scheduled"] :
        Hostname(topics["scan.scheduled"][i].data.url) = host}

\* C33: no two runs in progress, of different configs on the same host, have
\* both passed the rate-limit check, and within one minimum interval at most
\* one scan.scheduled event is published for a host.
C33_OnePublishPerHostAndInterval ==
    /\ \A r1, r2 \in runs.active :
          (/\ r1.config.id # r2.config.id
           /\ Hostname(r1.config.url) = Hostname(r2.config.url))
              => ~(PassedCheck(r1) /\ PassedCheck(r2))
    /\ now < MinIntervalMinutes =>
          \A c \in DOMAIN configsDb :
              Cardinality(PublishedFor(Hostname(configsDb[c].url))) <= 1

\* ------------------------------------------------------------------------
\* Dead-letter handling comes to an end
\* ------------------------------------------------------------------------
\* C34: a produce_message call, and a handler failure in the consumer loop,
\* lead to at most one produce_message call on the dead-letter topic, and to
\* none when the message that failed was itself published to, or consumed
\* from, the dead-letter topic.
C34_AtMostOneDeadLetterAttempt ==
    /\ lastProduce.dlq_calls <= 1
    /\ lastConsume.dlq_calls <= 1
    /\ lastProduce.topic = DlqTopic => lastProduce.dlq_calls = 0
    /\ lastConsume.topic = DlqTopic => lastConsume.dlq_calls = 0

\* The handler raised on a message taken from the dead-letter topic, and a
\* publish failed whose dead-letter publish failed as well.
C34_Witness ==
    /\ lastConsume.topic = DlqTopic /\ lastConsume.raised
    /\ lastProduce.topic # "" /\ ~lastProduce.ret
    /\ lastProduce.dlq_calls = 1 /\ ~lastProduce.dead_lettered

\* ------------------------------------------------------------------------
\* The two indexes of the ConnectionManager
\* ------------------------------------------------------------------------
\* C35: every websocket in a config's set is in its user's set; for a
\* websocket in the user index, being in the set of config C is the same as
\* C being in the websocket's own subscriptions; and no entry of either
\* index is an empty set.
C35_IndexesAgree ==
    /\ Subscribed(subscriptions) \subseteq Registered
    /\ \A w \in Registered, c \in GatewayConfigs :
          w \in BroadcastTargets(subscriptions, c) <=> c \in connMeta[w].subscriptions
    /\ \A u \in DOMAIN connections : connections[u] # {}
    /\ \A c \in DOMAIN subscriptions : subscriptions[c] # {}

\* ------------------------------------------------------------------------
\* What produce_message returns
\* ------------------------------------------------------------------------
\* C36: produce_message returns true exactly when the broker has taken the
\* message: a message is appended to a topic only by a call that returns
\* true, and a call that returns true has appended its message.
C36_FalseMeansNotPublished ==
    [][\A t \in BusTopics \ {DlqTopic} :
          /\ Len(topics'[t]) > Len(topics[t]) =>
                /\ lastProduce'.topic = t
                /\ lastProduce'.ret
          /\ (lastProduce' # lastProduce /\ lastProduce'.topic = t /\ lastProduce'.ret) =>
                /\ Len(topics'[t]) = Len(topics[t]) + 1
                /\ Value(Last(topics'[t])) = lastProduce'.message]_vars

\* The part of C36 the client keeps: a call that returns true has appended
\* its message.
C36_TrueMeansPublished ==
    [][\A t \in BusTopics \ {DlqTopic} :
          (lastProduce' # lastProduce /\ lastProduce'.topic = t /\ lastProduce'.ret) =>
                /\ Len(topics'[t]) = Len(topics[t]) + 1
                /\ Value(Last(topics'[t])) = lastProduce'.message]_vars



\* Two scans of one page: the technology's version and the load time differ,
\* so the comparison yields a technology_change and a performance_change,
\* each with a table of its own.
PersistSnapshots ==
    { [technologies |-> [detected |-> << [name |-> React,
                                          version |-> Version(17, 0, 0)] >>],
       performance |-> [load_time |-> 1000]],
      [technologies |-> [detected |-> << [name |-> React,
                                          version |-> Version(18, 0, 0)] >>],
       performance |-> [load_time |-> 2000]] }

\* What a run of _handle_scan_completed meets when the store may refuse the
\* INSERT of the first or of the second change.
PersistEnvs ==
    { [previous |-> "ok", thresholds |-> ReliableDetectEnv, insert_fails_at |-> n,
       faults |-> NoFaults] : n \in 0..2 }

NextPersist ==
    \/ \E c \in DetectConfigs, result_summary \in PersistSnapshots :
          WorkerPublish(c, result_summary)
    \/ \E scan_id \in 1..MaxScans : WorkerStore(scan_id)
    \/ \E scan_id \in 1..MaxScans, e \in PersistEnvs : HandleScanCompleted(scan_id, e)

SpecPersist == InitDetectOnly /\ [][NextPersist]_vars

\* The emissions of a run of _process_detected_changes whose transaction was
\* rolled back: the changes that have a table and whose row is not stored.
RolledBack(emitted) ==
    {k \in DOMAIN emitted :
        emitted[k].change.type \in ChangeTables /\ ~emitted[k].persisted}

\* C37: the change.detected events of one detection and its rows are
\* all-or-nothing: when the insert of a change fails and the transaction
\* rolls back, no change.detected event of that detection has been published.
C37_NoEventOfRolledBackDetection ==
    \A k \in RolledBack(emissions) : ~emissions[k].published


IssueKinds == {"issue_added", "issue_resolved"}

\* C38: a performance issue_added or issue_resolved change, built without a
\* change_percent, is always removed by the noise filter: detect_changes
\* never returns one, also when the issues list of the two scans differs.
C38_IssueChangesAreFiltered ==
    lastDetect.ran =>
        \A i \in DOMAIN lastDetect.changes :
            ~(/\ lastDetect.changes[i].type = "performance_change"
              /\ lastDetect.changes[i].change_type \in IssueKinds)

\* A call whose two scans differ in the issues list: the performance
\* detector builds an issue change, and the result carries no change at all.
C38_Witness ==
    /\ lastDetect.ran
    /\ ~lastDetect.has_changes
    /\ LET detected == DetectPerformanceChanges(Get(lastDetect.old, "performance", <<>>),
                                                Get(lastDetect.new, "performance", <<>>),
                                                lastDetect.configured)
       IN  /\ \E i \in DOMAIN detected : detected[i].change_type = "issue_added"
           /\ \A i \in DOMAIN detected : "change_percent" \notin DOMAIN detected[i]


\* C39: an alert's notification_sent flag is monotonic: once it is true it
\* is never set back to false, also when alert.triggered is delivered again
\* and every channel send of that later attempt fails.
C39_NotificationSentIsMonotonic ==
    [][\A i \in DOMAIN alertsDb :
          alertsDb[i].notification_sent =>
              /\ i \in DOMAIN alertsDb'
              /\ alertsDb'[i].notification_sent]_vars


\* A loader that empties active_configs before it queries the store.
ClearBeforeFetch(active, js) == [active |-> <<>>, jobs |-> js, raised |-> TRUE]

\* _load_monitoring_configs when conn.fetch raises: active_configs.clear()
\* and the scheduling loop come after the query, so neither has run; the
\* exception is logged and raised again.
QueryFailed(active, js) == [active |-> active, jobs |-> js, raised |-> TRUE]

\* _load_monitoring_configs with the store answering the query or not.
LoadOn(active, js, db, t, answer) ==
    IF answer = "ok"
    THEN LET loaded == LoadMonitoringConfigs(js, db, t)
         IN  [active |-> loaded.active, jobs |-> loaded.jobs, raised |-> FALSE]
    ELSE QueryFailed(active, js)

\* _reload_configs with the store answering or not: the exception of a load
\* that failed is caught and logged, and the job function returns.
ReloadConfigsOn(answer) ==
    /\ LET loaded == LoadOn(activeConfigs, jobs, configsDb, now, answer)
       IN  /\ activeConfigs' = loaded.active
           /\ jobs' = loaded.jobs
           /\ lastAdmin' = [op |-> "reload", config_id |-> "", existed |-> FALSE,
                            result |-> IF loaded.raised THEN "error" ELSE "", at |-> now]
    /\ UNCHANGED <<now, topics, rateMarks, configsDb, metrics, lastTrigger, notSched>>

\* The pipeline while its configs are changed and reloaded, with a store
\* that may refuse the query of a reload.
NextReload ==
    \/ \E c \in SchedConfigs : Fire(c, ReliableTriggerEnv)
    \/ \E answer \in {"ok", "error"} : ReloadConfigsOn(answer)
    \/ \E c \in SchedConfigs, updates \in ScheduleUpdates : UpdateMonitoringConfig(c, updates)
    \/ /\ \A job \in jobs : job.next_run_time > now
       /\ Tick(MinutesPerHour, MaxAdminHours * MinutesPerHour)

SpecReload == InitSchedOnly /\ [][NextReload]_vars

FailedReloadStep ==
    /\ lastAdmin' # lastAdmin
    /\ lastAdmin'.op = "reload"
    /\ lastAdmin'.result = "error"

\* C40: when the store query of a reload fails, the in-memory active configs
\* and every scheduled scan job are exactly what they were before, and the
\* scheduler goes on: the jobs that were due stay due.
C40_FailedReloadChangesNothing ==
    [][FailedReloadStep =>
          /\ activeConfigs' = activeConfigs
          /\ jobs' = jobs
          /\ \A c \in SchedConfigs :
                ENABLED Fire(c, ReliableTriggerEnv) => (ENABLED Fire(c, ReliableTriggerEnv))']_vars

\* A reload failed while configs were active and scheduled, and a scan job
\* fired after it.
C40_Witness ==
    /\ lastAdmin.op = "reload"
    /\ lastAdmin.result = "error"
    /\ activeConfigs # <<>>
    /\ jobs # {}
    /\ lastTrigger.at > lastAdmin.at

====
